---- MODULE Spec2Model ----
(***************************************************************************)
(* Model of the claim-status batch engine of tally_iv:                     *)
(*   ClaimService.submit_claim_status_requests and                         *)
(*   ClaimService._make_claim_status_request                               *)
(*   (src/claims_status/app/services/claim_service.py).                    *)
(*                                                                         *)
(* Records, payloads and DataFrame rows are numbered 1..N here; the code   *)
(* numbers them 0..N-1 (enumerate, df.iloc).  A Python dict is a TLA+      *)
(* record, an absent key is a field outside its DOMAIN.                    *)
(***************************************************************************)
EXTENDS Integers, Sequences, FiniteSets, TLC

\* Largest batch the model submits.
MaxN == 2
\* Largest max_concurrent the model passes to submit.
MaxLimit == 2

----------------------------------------------------------------------------
(* JSON values as response.json() returns them *)

JNull == [t |-> "null"]
JList == [t |-> "list"]
JDict(d) == [t |-> "dict", d |-> d]
\* {}: the dict with no keys
EmptyDict == [key \in {} |-> ""]

IsDict(j) == j.t = "dict"

\* dict.get(key, default) of a JSON object
DictGet(j, key, default) == IF key \in DOMAIN j.d THEN j.d[key] ELSE default

\* dict.get(key, default) of a Python dict held as a record
Get(r, key, default) == IF key \in DOMAIN r THEN r[key] ELSE default

----------------------------------------------------------------------------
(* What the remote service can do with one request *)

\* HTTP statuses are "200" and, for every non-success status, "404";
\* None is the status_code of a request that got no answer
None == "None"

ClaimsOf(code) == << [claimStatus |-> [statusCode |-> code]] >>

\* Bodies of a 200 answer
OkBodies ==
    { [kind |-> "unparseable"],
      [kind |-> "json", json |-> JNull],
      [kind |-> "json", json |-> JList],
      [kind |-> "json", json |-> JDict([meta |-> "m"])],
      [kind |-> "json", json |-> JDict([x12 |-> "x1"])],
      [kind |-> "json", json |-> JDict([x12 |-> "x2", claims |-> ClaimsOf("c1")])],
      [kind |-> "json", json |-> JDict([x12 |-> "x3", claims |-> ClaimsOf("c9")])] }

\* Bodies of a non-success answer
ErrBodies ==
    { [kind |-> "unparseable"],
      [kind |-> "json", json |-> JList],
      [kind |-> "json", json |-> JDict([message |-> "msg"])],
      [kind |-> "json", json |-> JDict([code |-> "E"])] }

Wire ==
    { [kind |-> "transport"], [kind |-> "timeout"] }
    \cup { [kind |-> "http", status |-> "200", body |-> b] : b \in OkBodies }
    \cup { [kind |-> "http", status |-> "404", body |-> b] : b \in ErrBodies }

NoWire == [kind |-> "pending"]

\* The response dict _make_claim_status_request returns for a wire outcome.
MakeClaimStatusRequest(w) ==
    IF w.kind = "transport"
    THEN [status_code |-> None, success |-> FALSE, error |-> "ClientError"]
    ELSE IF w.kind = "timeout"
    THEN [status_code |-> None, success |-> FALSE, error |-> "Unexpected error: timeout"]
    ELSE IF w.body.kind = "unparseable"
    THEN [status_code |-> None, success |-> FALSE, error |-> "Unexpected error: json"]
    ELSE [status_code |-> w.status, success |-> (w.status = "200"), data |-> w.body.json]

----------------------------------------------------------------------------
(* Denial-code table and the decoder's rendering *)

DenialTable ==
    << [DenialCode |-> "c1", DenialCategory |-> "catA", DenialReason |-> "reaA", FinalSteps |-> "stepA"],
       [DenialCode |-> "c2", DenialCategory |-> "catB", DenialReason |-> "reaB", FinalSteps |-> "stepB"],
       [DenialCode |-> "c1", DenialCategory |-> "catC", DenialReason |-> "reaC", FinalSteps |-> "stepC"] >>

\* get_denial_reasons: the table, or {} when the file cannot be read
DenialInfos == { [kind |-> "DataFrame", rows |-> DenialTable], [kind |-> "dict"] }

\* denial_info[denial_info['DenialCode'] == denial_code_str]
MatchingRows(rows, code) == SelectSeq(rows, LAMBDA r : r.DenialCode = code)

\* str(parser.format_output()) for the transaction x12: the rendering of the
\* claims decoded from that transaction text
ClaimStatusValue(x12) ==
    CASE x12 = "x1" -> "Claim 1 - $10.00: F1"
      [] x12 = "x2" -> "Claim 1 - $20.00: F2"
      [] x12 = "x3" -> "Claim 1 - $30.00: A7"

BlankRow == [claim_status |-> "", denial_code |-> "", denial_category |-> "",
             denial_reason |-> "", final_steps |-> ""]

Sentinel == "Payer not supported"

----------------------------------------------------------------------------
VARIABLES
    payloads,           \* the payload list handed to submit
    max_concurrent,     \* the concurrency limit
    denial_info,        \* what get_denial_reasons returned
    semaphore,          \* the semaphore's value
    task,               \* task[i]: "waiting", "inflight" or "done"
    wire,               \* wire[i]: what the remote did with request i
    pc,                 \* "gather", "process", "done" or "raised"
    k,                  \* position of the processing loop in completed_results
    denial_data,        \* the loop's denial_data dict
    df,                 \* the DataFrame's rows
    results,
    failed_requests

\* aiohttp.ClientTimeout(total=...) of the session: the time, in ticks
VARIABLES
    now,                \* ticks since submit_claim_status_requests made its tasks
    age                 \* age[i]: ticks since session.post of request i began

\* the engine instance across its batches
VARIABLES
    file,               \* app/docs/Code_Mapping.csv: its rows, or that it is missing
    cache,              \* the lru_cache entry of get_denial_reasons for the
                        \* instance: <<>> or <<the value returned>>
    loads,              \* how many times pd.read_csv ran
    batch               \* the number of the submit call, 0 when no instance is followed

\* get_trading_partner_id, called on its own
VARIABLES
    payers,             \* the rows of the StediPayers table, in query order
    lookup              \* the call: its arguments, and its result once it returned

\* process_claims_from_csv and Processor.build_payloads
VARIABLES
    prog,               \* "ClaimService" or "Processor", "" when neither runs
    csv,                \* the records of the input file
    ppc,                \* "read", "generate", "submit", "returned", "built" or "off"
    calls,              \* the calls of get_trading_partner_id made so far
    ret                 \* what process_claims_from_csv returned

\* the /claim-status endpoint
VARIABLE
    answer              \* what payer_info answered, once it did

\* X12ClaimParser
VARIABLES
    x12_content,        \* self.x12_content, the transaction text
    claims,             \* self.claims
    dpc,                \* "new", "parse" inside parse(), "returned", or "off"
    lines,              \* parse()'s list of lines
    pos,                \* the position of parse()'s loop in lines
    current_claim,      \* <<>> for None, <<claim>> for the open claim
    current_service,    \* 0 for None, else the index in the open claim's
                        \* services of the dict current_service refers to
    hierarchical_levels,
    returned            \* what each parse() call returned, when it returned

decvars == <<x12_content, claims, dpc, lines, pos, current_claim, current_service,
             hierarchical_levels, returned>>

resvars == <<payers, lookup>>

pipevars == <<prog, csv, ppc, calls, ret>>

timevars == <<now, age>>

enginevars == <<file, cache, loads, batch>>

apivars == <<answer>>

aux == <<resvars, pipevars, decvars, timevars, enginevars, apivars>>

vars == <<payloads, max_concurrent, denial_info, semaphore, task, wire, pc, k,
          denial_data, df, results, failed_requests, aux>>

\* no clock runs
TimeIdle == now = 0 /\ age = <<>>

NoAnswer == [status |-> "none"]

\* no request to the endpoint was answered
ApiIdle == answer = NoAnswer

\* no instance is followed across batches
EngineIdle == file = [kind |-> "off"] /\ cache = <<>> /\ loads = 0 /\ batch = 0

NoLookup == [state |-> "off"]

NoReturn == [arity |-> 0]

\* get_trading_partner_id is not running
ResIdle == payers = <<>> /\ lookup = NoLookup

\* no parser exists
DecIdle ==
    /\ x12_content = <<>> /\ claims = <<>> /\ dpc = "off" /\ lines = <<>> /\ pos = 1
    /\ current_claim = <<>> /\ current_service = 0
    /\ hierarchical_levels = <<>> /\ returned = <<>>

\* neither pipeline is running: submit_claim_status_requests is called directly
PipeIdle ==
    /\ prog = "" /\ csv = <<>> /\ ppc = "off" /\ calls = <<>> /\ ret = NoReturn

N == Len(payloads)

\* The payload lists of a batch of n records: the rows all alike (memberId 0 in
\* each), or all different.
PayloadLists(n) ==
    { [i \in 1..n |-> [memberId |-> 0]], [i \in 1..n |-> [memberId |-> i]] }

Init ==
    /\ \E n \in 0..MaxN : payloads \in PayloadLists(n)
    /\ max_concurrent \in 0..MaxLimit
    /\ denial_info \in DenialInfos
    /\ semaphore = max_concurrent
    /\ task = [i \in 1..N |-> "waiting"]
    /\ wire = [i \in 1..N |-> NoWire]
    /\ pc = "gather"
    /\ k = 1
    /\ denial_data = EmptyDict
    /\ df = [i \in 1..N |-> BlankRow]
    /\ results = <<>>
    /\ failed_requests = <<>>
    /\ now = 0
    /\ age = [i \in 1..N |-> 0]
    /\ EngineIdle /\ ApiIdle
    /\ ResIdle /\ PipeIdle /\ DecIdle

\* a gate that is always open
CanAcquire_Always(value) == TRUE

\* a gate that lets a task through at value 0
CanAcquire_OffByOne(value) == value >= 0

\* asyncio.Semaphore: acquire() goes through when the value is positive
CanAcquire(value) == value > 0

\* a gate that is released only when the request got an HTTP answer
Release_OnAnswerOnly(value, w) == IF w.kind = "http" THEN value + 1 ELSE value

\* asyncio.Semaphore: release() on leaving "async with", whatever the task returns
Release(value, w) == value + 1

\* async with semaphore: a waiting task is admitted when the value is positive
Admit(i) ==
    /\ pc = "gather"
    /\ task[i] = "waiting"
    /\ CanAcquire(semaphore)
    /\ semaphore' = semaphore - 1
    /\ task' = [task EXCEPT ![i] = "inflight"]
    /\ UNCHANGED <<payloads, max_concurrent, denial_info, wire, pc, k,
                   denial_data, df, results, failed_requests, aux>>

\* the request of task i ends, the task returns its tuple and releases the semaphore
Complete(i) ==
    /\ pc = "gather"
    /\ task[i] = "inflight"
    /\ \E w \in Wire :
          /\ wire' = [wire EXCEPT ![i] = w]
          /\ semaphore' = Release(semaphore, w)
    /\ task' = [task EXCEPT ![i] = "done"]
    /\ UNCHANGED <<payloads, max_concurrent, denial_info, pc, k,
                   denial_data, df, results, failed_requests, aux>>

\* asyncio.gather returns once every task is done
GatherReturns ==
    /\ pc = "gather"
    /\ \A i \in 1..N : task[i] = "done"
    /\ pc' = "process"
    /\ denial_data' = EmptyDict
    /\ UNCHANGED <<payloads, max_concurrent, denial_info, semaphore, task, wire, k,
                   df, results, failed_requests, aux>>

\* gather's list: entry i is the tuple task i returned, whatever the completion order
CompletedResults ==
    [i \in 1..N |-> [kind |-> "tuple", index |-> i, payload |-> payloads[i],
                     response |-> MakeClaimStatusRequest(wire[i])]]

----------------------------------------------------------------------------
(* The result loop.  A loop state st is                                    *)
(*   [df, results, failed_requests, denial_data, raised]                   *)

LoopState == [df |-> df, results |-> results, failed_requests |-> failed_requests,
              denial_data |-> denial_data, raised |-> FALSE]

Raise(st) == [st EXCEPT !.raised = TRUE]

\* df.iloc[index, df.columns.get_loc(column)] = value
SetCell(rows, index, column, value) == [rows EXCEPT ![index][column] = value]

\* isinstance(result, Exception): the exception gather returned for a task
HandleException(st, result) ==
    [st EXCEPT !.failed_requests =
        Append(@, [error |-> result.error, status_code |-> None])]

\* a failed status that writes the sentinel over the whole row
HandleFailedStatus_WholeRow(st, index, payload, response) ==
    LET data == Get(response, "data", JDict(EmptyDict))
    IN  IF ~IsDict(data)
        THEN Raise(st)
        ELSE [st EXCEPT
                !.failed_requests = Append(@,
                    [request_payload |-> payload,
                     error |-> DictGet(data, "message",
                                       Get(response, "error", "Unknown error")),
                     status_code |-> Get(response, "status_code", None)]),
                !.df = [@ EXCEPT ![index] = [column \in DOMAIN @ |-> Sentinel]]]

\* response.get("status_code") != 200
HandleFailedStatus(st, index, payload, response) ==
    LET data == Get(response, "data", JDict(EmptyDict))
    IN  IF ~IsDict(data)
        THEN Raise(st)      \* AttributeError: .get of a list or of None
        ELSE [st EXCEPT
                !.failed_requests = Append(@,
                    [request_payload |-> payload,
                     error |-> DictGet(data, "message",
                                       Get(response, "error", "Unknown error")),
                     status_code |-> Get(response, "status_code", None)]),
                !.df = SetCell(@, index, "claim_status", Sentinel)]

\* a missing payload that is skipped without a failure entry
HandleMissingX12_Unrecorded(st, index, payload, response) == st

\* not x12_data
HandleMissingX12(st, index, payload, response) ==
    [st EXCEPT !.failed_requests = Append(@,
        [request_payload |-> payload,
         error |-> "No x12 data in response",
         status_code |-> Get(response, "status_code", None)])]

\* the denial lookup of a response that carries claims
DenialLookup(st, index, claims_data, info) ==
    LET data        == Get(claims_data[1], "claimStatus", EmptyDict)
        denial_code == Get(data, "statusCode", "")
    IN  IF info.kind # "DataFrame"
        THEN Raise(st)      \* KeyError: {}['DenialCode']
        ELSE LET matching_row == MatchingRows(info.rows, denial_code)
                 dd == IF matching_row # <<>> THEN matching_row[1] ELSE st.denial_data
             IN  [st EXCEPT
                    !.denial_data = dd,
                    !.df = SetCell(SetCell(SetCell(SetCell(@,
                             index, "denial_code", denial_code),
                             index, "denial_category", Get(dd, "DenialCategory", "")),
                             index, "denial_reason", Get(dd, "DenialReason", "")),
                             index, "final_steps", Get(dd, "FinalSteps", ""))]

\* a 200 response with x12 data: decode, look the denial up, write the row
HandleSuccess(st, index, payload, response, x12_data, info) ==
    LET claim_status_value == ClaimStatusValue(x12_data)
        claims_data == DictGet(response.data, "claims", <<>>)
        st1 == IF claims_data # <<>>
               THEN DenialLookup(st, index, claims_data, info)
               ELSE st
    IN  IF st1.raised
        THEN st1
        ELSE [st1 EXCEPT
                !.df = SetCell(@, index, "claim_status", claim_status_value),
                !.results = Append(@, [request_payload |-> payload,
                                       claim_status |-> claim_status_value])]

\* one pass of "for result in completed_results"
HandleResult(st, result, info) ==
    IF result.kind = "exception"
    THEN HandleException(st, result)
    ELSE LET index    == result.index
             payload  == result.payload
             response == result.response
         IN  IF Get(response, "status_code", None) # "200"
             THEN HandleFailedStatus(st, index, payload, response)
             ELSE IF ~IsDict(Get(response, "data", JDict(EmptyDict)))
             THEN Raise(st)     \* AttributeError: .get of a list or of None
             ELSE LET x12_data == DictGet(response.data, "x12", "")
                  IN  IF x12_data = ""
                      THEN HandleMissingX12(st, index, payload, response)
                      ELSE HandleSuccess(st, index, payload, response, x12_data, info)

\* the loop handles completed_results[k]
ProcessResult ==
    /\ pc = "process"
    /\ k <= N
    /\ LET st == HandleResult(LoopState, CompletedResults[k], denial_info)
       IN  /\ df' = st.df
           /\ results' = st.results
           /\ failed_requests' = st.failed_requests
           /\ denial_data' = st.denial_data
           /\ pc' = IF st.raised THEN "raised" ELSE "process"
           /\ k' = IF st.raised THEN k ELSE k + 1
    /\ UNCHANGED <<payloads, max_concurrent, denial_info, semaphore, task, wire, aux>>

\* return results, failed_requests, df
Return ==
    /\ pc = "process"
    /\ k > N
    /\ pc' = "done"
    /\ UNCHANGED <<payloads, max_concurrent, denial_info, semaphore, task, wire, k,
                   denial_data, df, results, failed_requests, aux>>

Next ==
    \/ \E i \in 1..N : Admit(i)
    \/ \E i \in 1..N : Complete(i)
    \/ GatherReturns
    \/ ProcessResult
    \/ Return

Spec == Init /\ [][Next]_vars

\* The event loop runs a task that can run, and an admitted request ends.
FairSpec == Spec /\ WF_vars(Next)

----------------------------------------------------------------------------
(* The session's timeout, with the time made explicit: TimeoutSpec.  aiohttp
   arms the total timeout of a ClientSession anew for every request, when
   session.post begins, which here is after the task got through the
   semaphore. *)

\* aiohttp.ClientTimeout(total=300), in ticks of 150 seconds
TotalTimeout == 2

\* the last tick the clock is followed to
MaxNow == 3

\* one tick passes while tasks are gathered: no time passes while a task can
\* get through the semaphore, and a request whose timer is due ends before the
\* next tick
Tick ==
    /\ pc = "gather"
    /\ \E i \in 1..N : task[i] # "done"
    /\ now < MaxNow
    /\ \A i \in 1..N : task[i] = "waiting" => ~CanAcquire(semaphore)
    /\ \A i \in 1..N : task[i] = "inflight" => age[i] < TotalTimeout
    /\ now' = now + 1
    /\ age' = [i \in 1..N |-> IF task[i] = "inflight" THEN age[i] + 1 ELSE age[i]]
    /\ UNCHANGED <<payloads, max_concurrent, denial_info, semaphore, task, wire, pc, k,
                   denial_data, df, results, failed_requests,
                   resvars, pipevars, decvars, enginevars, apivars>>

\* the request of task i ends: by the timer when its total timeout is due, and
\* otherwise in any other way
TimedComplete(i) ==
    /\ Complete(i)
    /\ (wire'[i].kind = "timeout") <=> (age[i] = TotalTimeout)

TimeoutNext ==
    \/ \E i \in 1..N : Admit(i)
    \/ \E i \in 1..N : TimedComplete(i)
    \/ Tick
    \/ GatherReturns
    \/ ProcessResult
    \/ Return

TimeoutSpec == Init /\ [][TimeoutNext]_vars

----------------------------------------------------------------------------
(* One ClaimService instance serving several batches.  The file behind the  *)
(* denial-code table may change or disappear between two batches.           *)

MaxBatches == 2

\* a later edition of the table
RevisedTable ==
    << [DenialCode |-> "c1", DenialCategory |-> "catZ", DenialReason |-> "reaZ", FinalSteps |-> "stepZ"] >>

Files ==
    { [kind |-> "csv", rows |-> DenialTable], [kind |-> "csv", rows |-> RevisedTable],
      [kind |-> "missing"] }

\* the body of get_denial_reasons: the DataFrame read, {} when reading fails
ReadCsv(f) ==
    IF f.kind = "missing" THEN [kind |-> "dict"]
    ELSE [kind |-> "DataFrame", rows |-> f.rows]

\* a cache that never holds an entry
CacheHit_Never(c) == FALSE

\* functools.lru_cache: the key (self) has an entry, the function does not run
CacheHit(c) == c # <<>>

EngineInit ==
    /\ \E n \in 0..MaxN : payloads \in PayloadLists(n)
    /\ max_concurrent \in 0..MaxLimit
    /\ denial_info = [kind |-> "none"]
    /\ semaphore = 0
    /\ task = <<>> /\ wire = <<>>
    /\ pc = "start"
    /\ k = 1
    /\ denial_data = EmptyDict
    /\ df = [i \in 1..N |-> BlankRow]
    /\ results = <<>>
    /\ failed_requests = <<>>
    /\ TimeIdle
    /\ file \in Files /\ cache = <<>> /\ loads = 0 /\ batch = 1
    /\ ApiIdle
    /\ ResIdle /\ PipeIdle /\ DecIdle

\* submit_claim_status_requests up to the creation of its tasks
SubmitStarts ==
    /\ pc = "start"
    /\ IF CacheHit(cache)
       THEN /\ denial_info' = cache[1]
            /\ UNCHANGED <<cache, loads>>
       ELSE /\ denial_info' = ReadCsv(file)
            /\ cache' = <<ReadCsv(file)>>
            /\ loads' = loads + 1
    /\ results' = <<>>
    /\ failed_requests' = <<>>
    /\ semaphore' = max_concurrent
    /\ task' = [i \in 1..N |-> "waiting"]
    /\ wire' = [i \in 1..N |-> NoWire]
    /\ pc' = "gather"
    /\ UNCHANGED <<payloads, max_concurrent, k, denial_data, df, file, batch,
                   resvars, pipevars, decvars, timevars, apivars>>

\* the caller submits the next batch to the same instance
NextBatch ==
    /\ pc \in {"done", "raised"}
    /\ batch < MaxBatches
    /\ batch' = batch + 1
    /\ \E n \in 0..MaxN : payloads' \in PayloadLists(n)
    /\ df' = [i \in 1..Len(payloads') |-> BlankRow]
    /\ pc' = "start"
    /\ k' = 1
    /\ denial_data' = EmptyDict
    /\ task' = <<>> /\ wire' = <<>>
    /\ UNCHANGED <<max_concurrent, denial_info, semaphore, results, failed_requests,
                   file, cache, loads, resvars, pipevars, decvars, timevars, apivars>>

\* Code_Mapping.csv is replaced or removed while no batch runs
FileChanges ==
    /\ pc \in {"done", "raised"}
    /\ batch < MaxBatches
    /\ file' \in Files \ {file}
    /\ UNCHANGED <<payloads, max_concurrent, denial_info, semaphore, task, wire, pc, k,
                   denial_data, df, results, failed_requests, cache, loads, batch,
                   resvars, pipevars, decvars, timevars, apivars>>

EngineNext ==
    \/ SubmitStarts
    \/ \E i \in 1..N : Admit(i)
    \/ \E i \in 1..N : Complete(i)
    \/ GatherReturns
    \/ ProcessResult
    \/ Return
    \/ NextBatch
    \/ FileChanges

EngineSpec == EngineInit /\ [][EngineNext]_vars

\* the table every lookup of the running batch reads is the one first loaded
LookupsReadFirstLoad ==
    pc \in {"gather", "process", "done", "raised"} =>
        /\ cache # <<>>
        /\ denial_info = cache[1]

\* once loaded, the table is what it was, whatever step is taken
LoadedTableKept ==
    /\ cache # <<>> => cache' = cache
    /\ pc # "start" => denial_info' = denial_info

\* C33: the denial-code table is read from its file at most once for the
\* instance, however many batches are submitted and whatever happens to the
\* file, and no step changes it: every lookup of every batch reads the table
\* that was loaded first.
C33_TableLoadedOnceAndKept ==
    [](loads <= 1 /\ LookupsReadFirstLoad) /\ [][LoadedTableKept]_vars

\* the second batch looked a code up after the file had been replaced, and
\* read the first edition
C33_Witness ==
    /\ batch = 2 /\ pc = "done"
    /\ loads = 1
    /\ file = [kind |-> "csv", rows |-> RevisedTable]
    /\ denial_info = [kind |-> "DataFrame", rows |-> DenialTable]
    /\ N = 1 /\ df[1].denial_category = "catA"

----------------------------------------------------------------------------
(* Vocabulary of the claims *)

Records == 1..N

InFlight == { i \in Records : task[i] = "inflight" }

AllTasksDone == \A i \in Records : task[i] = "done" /\ wire[i] \in Wire

\* the remote answered with a non-success HTTP status
NonSuccess(w) == w.kind = "http" /\ w.status # "200"

\* the remote answered 200 with a JSON object that holds a transaction body
Decodable(w) ==
    /\ w.kind = "http" /\ w.status = "200" /\ w.body.kind = "json"
    /\ IsDict(w.body.json) /\ "x12" \in DOMAIN w.body.json.d

\* the remote answered 200 without a decodable transaction body
MissingPayload(w) == w.kind = "http" /\ w.status = "200" /\ ~Decodable(w)

\* the request never got an HTTP answer
TransportFailure(w) == w.kind \in {"transport", "timeout"}

\* the structured claim-status code of a decodable response, "" when it has none
StatusCodeOf(w) ==
    IF "claims" \in DOMAIN w.body.json.d
    THEN w.body.json.d.claims[1].claimStatus.statusCode
    ELSE ""

HasStatusCode(w) == Decodable(w) /\ "claims" \in DOMAIN w.body.json.d

\* text is a status text that can be derived from the response w alone: the
\* rendering of w's own transaction body when it has one, else blank or the sentinel
DerivedFrom(text, w) ==
    IF Decodable(w) THEN text = ClaimStatusValue(w.body.json.d.x12)
    ELSE text \in {"", Sentinel}

\* get_denial_reasons could read the denial-code table
TableLoaded == denial_info.kind = "DataFrame"

\* the failure entries that reference record i
FailuresOf(i) ==
    { j \in DOMAIN failed_requests :
        /\ "request_payload" \in DOMAIN failed_requests[j]
        /\ failed_requests[j].request_payload = payloads[i] }

----------------------------------------------------------------------------
(* C1: with a concurrency limit of at least 1, at every moment the number  *)
(* of requests admitted through the gate and not yet completed is at most  *)
(* the limit.                                                              *)
C1_InFlightAtMostLimit ==
    max_concurrent >= 1 => Cardinality(InFlight) <= max_concurrent

\* the gate is binding: the limit is reached while another task still waits
C1_Witness ==
    /\ max_concurrent >= 1
    /\ Cardinality(InFlight) = max_concurrent
    /\ \E i \in Records : task[i] = "waiting"

(* C2: for any batch of N records and any completion order, submit yields *)
(* exactly N enriched rows in input order, and the status text of row i    *)
(* is derived from the response to record i's request and from no other.   *)
(* (Stated for the runs in which the denial-code table was loaded.)        *)
C2_RowsFromOwnResponse ==
    (AllTasksDone /\ TableLoaded) =>
        /\ pc # "raised"
        /\ pc = "done" =>
              /\ Len(df) = N
              /\ \A i \in Records : DerivedFrom(df[i].claim_status, wire[i])

(* C3: for any completion order, the results list submit returns has       *)
(* results[i] corresponding to input record i for every record i.          *)
C3_ResultsAlignedWithInput ==
    pc = "done" =>
        /\ Len(results) = N
        /\ \A i \in Records :
              /\ results[i].request_payload = payloads[i]
              /\ results[i].claim_status = df[i].claim_status

(* C4: every entry of the results list and of the failures list carries    *)
(* the index of the input record it originated from.                       *)
CarriesIndex(entry) ==
    /\ "index" \in DOMAIN entry
    /\ entry.index \in Records
    /\ "request_payload" \in DOMAIN entry => entry.request_payload = payloads[entry.index]

C4_EntriesCarryIndex ==
    /\ \A j \in DOMAIN results : CarriesIndex(results[j])
    /\ \A j \in DOMAIN failed_requests : CarriesIndex(failed_requests[j])

(* C5: when exactly the records of a set F are answered with a non-success *)
(* HTTP status and all others succeed with a decodable payload, submit     *)
(* yields N rows of which exactly those of F carry the sentinel, and a     *)
(* failures list of |F| entries, one referencing each record of F.         *)
(* (Stated for the runs in which the denial-code table was loaded.)        *)
C5_PartialFailure ==
    LET F == { i \in Records : NonSuccess(wire[i]) }
    IN  (AllTasksDone /\ TableLoaded /\ \A i \in Records \ F : Decodable(wire[i])) =>
            /\ pc # "raised"
            /\ pc = "done" =>
                  /\ Len(df) = N
                  /\ \A i \in Records : (df[i].claim_status = Sentinel) <=> (i \in F)
                  /\ Len(failed_requests) = Cardinality(F)
                  /\ \A i \in F : FailuresOf(i) # {}

(* C6: submit returns normally, never raises, with a result set sized to   *)
(* the input, for every combination of per-record outcomes.                *)
(* (Stated for the runs in which the denial-code table was loaded.)        *)
C6_NeverRaises ==
    TableLoaded =>
        /\ pc # "raised"
        /\ pc = "done" => Len(df) = N

C8_MissingPayloadBlankRow ==
    pc = "done" =>
        \A i \in Records :
            MissingPayload(wire[i]) =>
                /\ df[i].claim_status = ""
                /\ \E j \in FailuresOf(i) :
                      failed_requests[j].error = "No x12 data in response"

(* C9: a row carries the sentinel status text if and only if its record's  *)
(* request was answered with a non-success HTTP status.                    *)
C9_SentinelIffNonSuccess ==
    pc = "done" =>
        \A i \in Records :
            (df[i].claim_status = Sentinel) <=> NonSuccess(wire[i])

(* C10: for every decoded record whose response carries a claim-status     *)
(* code, the row's denial category, reason and next step come from the     *)
(* first denial-table entry matching that code, and are blank when no      *)
(* entry matches, whatever the records handled before it.                  *)
C10_DenialFieldsFromFirstMatch ==
    pc = "done" =>
        \A i \in Records :
            HasStatusCode(wire[i]) =>
                LET m == MatchingRows(DenialTable, StatusCodeOf(wire[i]))
                IN  IF m # <<>>
                    THEN /\ df[i].denial_category = m[1].DenialCategory
                         /\ df[i].denial_reason = m[1].DenialReason
                         /\ df[i].final_steps = m[1].FinalSteps
                    ELSE /\ df[i].denial_category = ""
                         /\ df[i].denial_reason = ""
                         /\ df[i].final_steps = ""


\* the request of record i failed: a non-success status, a transport failure or
\* a timeout, or a success without a decodable payload
FailedRecord(i) ==
    NonSuccess(wire[i]) \/ TransportFailure(wire[i]) \/ MissingPayload(wire[i])

Cells == { <<i, column>> : i \in Records, column \in DOMAIN BlankRow }

\* C34: the step of the result loop that handles a failed record changes no
\* cell of the enriched output other than that record's claim_status: the other
\* rows and the failing row's denial columns are what they were.
C34_FailureTouchesOwnStatusOnly ==
    [][(pc = "process" /\ k <= N /\ FailedRecord(k)) =>
          \A cell \in Cells \ {<<k, "claim_status">>} :
              df'[cell[1]][cell[2]] = df[cell[1]][cell[2]]]_vars

\* record 2 failed after record 1 had been written with its denial fields:
\* row 1 is what it was and row 2 holds the sentinel only
C34_Witness ==
    /\ pc = "process" /\ N = 2 /\ k = 3
    /\ ~FailedRecord(1) /\ NonSuccess(wire[2])
    /\ df[1].denial_category = "catA" /\ df[1].claim_status # ""
    /\ df[2] = [BlankRow EXCEPT !.claim_status = Sentinel]

\* the payloads of the records of S, in input order, up to record n
RECURSIVE PayloadsOf(_, _)
PayloadsOf(S, n) ==
    IF n = 0 THEN <<>>
    ELSE IF n \in S THEN Append(PayloadsOf(S, n - 1), payloads[n])
    ELSE PayloadsOf(S, n - 1)

\* the payloads the entries of a list refer to
Referenced(entries) ==
    [j \in DOMAIN entries |->
        IF "request_payload" \in DOMAIN entries[j]
        THEN <<entries[j].request_payload>> ELSE <<>>]

Some(sequence) == [j \in DOMAIN sequence |-> <<sequence[j]>>]

\* C35: once submit has returned, the records are split in two: those of some
\* set S have one entry each in results and the others have one entry each in
\* the failures list, so that the two lists hold N entries together and no
\* record has two entries.
C35_EachRecordInOneList ==
    pc = "done" =>
        /\ Len(results) + Len(failed_requests) = N
        /\ \E S \in SUBSET Records :
              /\ Referenced(results) = Some(PayloadsOf(S, N))
              /\ Referenced(failed_requests) = Some(PayloadsOf(Records \ S, N))

\* submit returned for two different records, one in each list
C35_Witness ==
    /\ pc = "done" /\ N = 2 /\ payloads[1] # payloads[2]
    /\ Referenced(results) = <<<<payloads[2]>>>>
    /\ Referenced(failed_requests) = <<<<payloads[1]>>>>
    /\ MissingPayload(wire[1])

\* C38: with a concurrency limit of 0 and at least one record, every task
\* waits at the gate for ever: none is admitted, whatever time passes, and
\* submit stays in gather and does not return.
C38_ZeroLimitNeverReturns ==
    (max_concurrent = 0 /\ N >= 1) =>
        /\ \A i \in Records : task[i] = "waiting" /\ wire[i] = NoWire
        /\ pc = "gather"
        /\ results = <<>> /\ failed_requests = <<>>

\* two tasks still wait at a gate of 0 when more time than the timeout has passed
C38_Witness ==
    /\ max_concurrent = 0 /\ N = 2
    /\ now > TotalTimeout
    /\ \A i \in Records : task[i] = "waiting"
    /\ pc = "gather"

\* C25: a request that is not done once more than the timeout has passed since
\* the batch was dispatched, admitted early or late, ends as a transport failure:
\* its task returns a response without a status code.
C25_OneCeilingForTheBatch ==
    [][\A i \in 1..N :
          (now > TotalTimeout /\ task[i] # "done" /\ task'[i] = "done")
              => LET response == MakeClaimStatusRequest(wire'[i])
                 IN  response.status_code = None /\ ~response.success]_vars

----------------------------------------------------------------------------
(* Text.  A Python str is a sequence of one-character strings, so that the
   regular expressions, strip(), upper(), split() and "in" of the resolver are
   computed and not assumed. *)

Lowers == <<"a", "b", "c", "d", "e", "f", "g", "h", "i", "j", "k", "l", "m",
            "n", "o", "p", "q", "r", "s", "t", "u", "v", "w", "x", "y", "z">>

Uppers == <<"A", "B", "C", "D", "E", "F", "G", "H", "I", "J", "K", "L", "M",
            "N", "O", "P", "Q", "R", "S", "T", "U", "V", "W", "X", "Y", "Z">>

Digits == {"0", "1", "2", "3", "4", "5", "6", "7", "8", "9"}

\* \w of the regular expressions
IsWordChar(c) ==
    \/ \E i \in DOMAIN Lowers : c = Lowers[i] \/ c = Uppers[i]
    \/ c \in Digits
    \/ c = "_"

\* \s of the regular expressions
IsSpace(c) == c = " "

\* str.upper() on one character
UpperChar(c) ==
    IF \E i \in DOMAIN Lowers : c = Lowers[i]
    THEN Uppers[CHOOSE i \in DOMAIN Lowers : c = Lowers[i]]
    ELSE c

\* re.sub(r"[^\w\s]", " ", s)
SubSpecial(s) ==
    [i \in DOMAIN s |-> IF IsWordChar(s[i]) \/ IsSpace(s[i]) THEN s[i] ELSE " "]

RECURSIVE LStrip(_)
LStrip(s) == IF s # <<>> /\ IsSpace(Head(s)) THEN LStrip(Tail(s)) ELSE s

RECURSIVE RStrip(_)
RStrip(s) ==
    IF s # <<>> /\ IsSpace(s[Len(s)]) THEN RStrip(SubSeq(s, 1, Len(s) - 1)) ELSE s

\* str.strip()
Strip(s) == RStrip(LStrip(s))

\* re.sub(r"\s+", " ", s)
RECURSIVE SubSpaces(_)
SubSpaces(s) ==
    IF s = <<>> THEN <<>>
    ELSE IF IsSpace(Head(s)) THEN <<" ">> \o SubSpaces(LStrip(Tail(s)))
    ELSE <<Head(s)>> \o SubSpaces(Tail(s))

\* _normalize_name
NormalizeName(name) ==
    LET normalized == SubSpaces(SubSpecial(name))
        stripped == Strip(normalized)
    IN  [i \in DOMAIN stripped |-> UpperChar(stripped[i])]

\* the set of the words of s.split()
Words(s) ==
    { SubSeq(s, i, j) : i \in DOMAIN s, j \in DOMAIN s } \ {<<>>}

Split(s) ==
    { w \in Words(s) :
        /\ \A c \in DOMAIN w : ~IsSpace(w[c])
        /\ \E i \in DOMAIN s :
              /\ i + Len(w) - 1 <= Len(s)
              /\ SubSeq(s, i, i + Len(w) - 1) = w
              /\ (i = 1 \/ IsSpace(s[i - 1]))
              /\ (i + Len(w) - 1 = Len(s) \/ IsSpace(s[i + Len(w)])) }

common_words ==
    { <<"O", "F">>, <<"T", "H", "E">>, <<"A", "N", "D">>, <<"A">>, <<"A", "N">>,
      <<"I", "N">>, <<"F", "O", "R">>, <<"O", "N">>, <<"A", "T">>, <<"T", "O">>,
      <<"B", "Y">> }

\* the least length of a keyword
MinKeywordLen == 2

\* _extract_keywords
ExtractKeywords(name) ==
    { w \in Split(NormalizeName(name)) :
        Len(w) >= MinKeywordLen /\ w \notin common_words }

\* Python's "sub in s" on two str
Contains(sub, s) ==
    \E i \in 0..(Len(s) - Len(sub)) : SubSeq(s, i + 1, i + Len(sub)) = sub

\* SQL's  x LIKE '%suffix'
LikeSuffix(x, suffix) ==
    /\ Len(suffix) <= Len(x)
    /\ SubSeq(x, Len(x) - Len(suffix) + 1, Len(x)) = suffix

\* a nullable column: None, or a text
Null == [isnull |-> TRUE]

Text(t) == [isnull |-> FALSE, text |-> t]

----------------------------------------------------------------------------
(* The payer resolver: ClaimService.get_trading_partner_id, and the same code
   in PayerLookupService.get_trading_partner_id *)

\* a query that, when it fails, hands out every row it has cached
GetAllPayers_ServesOnFailure(table, payer_id, db_ok) ==
    [i \in DOMAIN table |->
        [PrimaryPayerId |-> table[i].PayerId,
         DisplayName |-> table[i].DisplayName,
         Aliases |-> IF table[i].Aliases.isnull THEN Text(<<>>) ELSE table[i].Aliases]]

\* PayerCruds.get_all_payers: the rows with ClaimStatusInquiry = 1 whose PayerId
\* ends with payer_id when one is given; no rows when the query fails
GetAllPayers(table, payer_id, db_ok) ==
    IF ~db_ok THEN <<>>
    ELSE LET Kept(p) ==
                 /\ p.ClaimStatusInquiry = 1
                 /\ (payer_id # <<>> => LikeSuffix(p.PayerId, payer_id))
             rows == SelectSeq(table, Kept)
         IN  [i \in DOMAIN rows |->
                 [PrimaryPayerId |-> rows[i].PayerId,
                  DisplayName |-> rows[i].DisplayName,
                  Aliases |-> IF rows[i].Aliases.isnull THEN Text(<<>>)
                              ELSE rows[i].Aliases]]

Columns == <<"DisplayName", "Aliases">>

\* a first stage that matches nothing
ExactMatch_Never(x, normalized_payor) == FALSE

\* Strategy 1's lambda
ExactMatch(x, normalized_payor) ==
    IF ~x.isnull THEN NormalizeName(x.text) = normalized_payor ELSE FALSE

\* Strategy 2's lambda
PartialMatch(x, normalized_payor) ==
    IF ~x.isnull THEN Contains(normalized_payor, NormalizeName(x.text)) ELSE FALSE

\* calculate_keyword_score
CalculateKeywordScore(value, keywords) ==
    IF value.isnull THEN 0
    ELSE Cardinality(keywords \cap ExtractKeywords(value.text))

\* df['match_score'] of one row
MatchScore(row, keywords) ==
    CalculateKeywordScore(row.DisplayName, keywords)
        + CalculateKeywordScore(row.Aliases, keywords)

\* the lambda of a strategy: 1 for the exact match, 2 for the partial match
StrategyMatch(strategy, x, normalized_payor) ==
    IF strategy = 1 THEN ExactMatch(x, normalized_payor)
    ELSE PartialMatch(x, normalized_payor)

\* df[df[col].apply(...)]: the rows the strategy selects in column col
Matches(candidates, col, strategy, normalized_payor) ==
    LET Sel(row) == StrategyMatch(strategy, row[col], normalized_payor)
    IN  SelectSeq(candidates, Sel)

\* the loop "for col in ['DisplayName', 'Aliases']" of a strategy: the id of the
\* first match in the first column that has one, <<>> when neither has
FirstMatch(candidates, strategy, normalized_payor) ==
    LET inName == Matches(candidates, Columns[1], strategy, normalized_payor)
        inAliases == Matches(candidates, Columns[2], strategy, normalized_payor)
    IN  IF inName # <<>> THEN <<inName[1].PrimaryPayerId>>
        ELSE IF inAliases # <<>> THEN <<inAliases[1].PrimaryPayerId>>
        ELSE <<>>

\* a third stage that returns the last of the rows with the highest score
KeywordMatch_Last(candidates, payor_keywords) ==
    LET max == CHOOSE m \in { MatchScore(candidates[i], payor_keywords) : i \in DOMAIN candidates } :
                   \A i \in DOMAIN candidates : MatchScore(candidates[i], payor_keywords) <= m
        Best(row) == MatchScore(row, payor_keywords) = max
        best_matches == SelectSeq(candidates, Best)
    IN  IF best_matches # <<>> /\ max > 0
        THEN <<best_matches[Len(best_matches)].PrimaryPayerId>>
        ELSE <<>>

\* a third stage that does not test the highest score against 0
KeywordMatch_AnyScore(candidates, payor_keywords) ==
    IF candidates # <<>> THEN <<candidates[1].PrimaryPayerId>> ELSE <<>>

\* Strategy 3: the first row whose score is the highest, if that score is positive
KeywordMatch(candidates, payor_keywords) ==
    LET max == CHOOSE m \in { MatchScore(candidates[i], payor_keywords) : i \in DOMAIN candidates } :
                   \A i \in DOMAIN candidates : MatchScore(candidates[i], payor_keywords) <= m
        Best(row) == MatchScore(row, payor_keywords) = max
        best_matches == SelectSeq(candidates, Best)
    IN  IF best_matches # <<>> /\ MatchScore(best_matches[1], payor_keywords) > 0
        THEN <<best_matches[1].PrimaryPayerId>>
        ELSE <<>>

\* get_trading_partner_id on the rows the query returned
ResolveIn(candidates, payor_name) ==
    IF candidates = <<>> THEN <<>>
    ELSE LET normalized_payor == NormalizeName(payor_name)
             payor_keywords == ExtractKeywords(payor_name)
             exact == FirstMatch(candidates, 1, normalized_payor)
             partial == FirstMatch(candidates, 2, normalized_payor)
             keyword == KeywordMatch(candidates, payor_keywords)
         IN  IF exact # <<>> THEN exact[1]
             ELSE IF partial # <<>> THEN partial[1]
             ELSE IF keyword # <<>> THEN keyword[1]
             ELSE <<>>

GetTradingPartnerId(payor_name, payer_id, table, db_ok) ==
    ResolveIn(GetAllPayers(table, payer_id, db_ok), payor_name)

----------------------------------------------------------------------------
(* The resolver called on its own: ResolveSpec *)

\* the most rows of the StediPayers table
MaxPayers == 2

AETNA == <<"A", "E", "T", "N", "A">>

AETNA_HEALTH == <<"A", "E", "T", "N", "A", " ", "H", "E", "A", "L", "T", "H">>

aetna_inc == <<" ", "a", "e", "t", "n", "a", ",", " ", " ", "I", "n", "c", ".">>

Aetna_dot == <<"A", "e", "t", "n", "a", ".">>

HEALTH_OF == <<"H", "E", "A", "L", "T", "H", " ", "O", "F">>

CIGNA == <<"C", "I", "G", "N", "A">>

\* a name cut short: part of "AETNA", and no keyword of it
AETN == <<"A", "E", "T", "N">>

HEALTH_INC == <<"H", "e", "a", "l", "t", "h", " ", "I", "n", "c">>

\* the names a record or a table row can carry
PayorNames == { AETNA, Aetna_dot, AETNA_HEALTH, HEALTH_OF, CIGNA, AETN, HEALTH_INC, <<>> }

IdA == <<"A", "0", "1">>

IdB == <<"B", "0", "1">>

IdC == <<"C", "0", "2">>

\* the payer_id filters: none, one that two ids end with, one that no id ends with
PayerIdHints == { <<>>, <<"0", "1">>, <<"9">> }

\* the rows a StediPayers table is made of
PayerRows ==
    { [PayerId |-> IdA, DisplayName |-> Text(AETNA_HEALTH), Aliases |-> Null,
       ClaimStatusInquiry |-> 1],
      [PayerId |-> IdB, DisplayName |-> Text(AETNA), Aliases |-> Text(<<>>),
       ClaimStatusInquiry |-> 1],
      [PayerId |-> IdC, DisplayName |-> Null, Aliases |-> Text(aetna_inc),
       ClaimStatusInquiry |-> 1],
      [PayerId |-> IdB, DisplayName |-> Text(CIGNA), Aliases |-> Text(Aetna_dot),
       ClaimStatusInquiry |-> 0] }

PayerTables ==
    UNION { [1..n -> PayerRows] : n \in 0..MaxPayers }

\* every variable of submit_claim_status_requests at rest
SubmitIdle ==
    /\ payloads = <<>> /\ max_concurrent = 0 /\ denial_info = [kind |-> "none"]
    /\ semaphore = 0 /\ task = <<>> /\ wire = <<>> /\ pc = "idle" /\ k = 1
    /\ denial_data = EmptyDict /\ df = <<>> /\ results = <<>>
    /\ failed_requests = <<>>
    /\ TimeIdle /\ EngineIdle /\ ApiIdle

submitvars == <<payloads, max_concurrent, denial_info, semaphore, task, wire, pc, k,
                denial_data, df, results, failed_requests, timevars, enginevars>>

ResolveInit ==
    /\ SubmitIdle /\ PipeIdle /\ DecIdle
    /\ payers \in PayerTables
    /\ \E name \in PayorNames, hint \in PayerIdHints :
          lookup = [state |-> "called", payor_name |-> name, payer_id |-> hint]

\* get_trading_partner_id runs and returns; the query may fail
GetTradingPartnerIdReturns ==
    /\ lookup.state = "called"
    /\ \E db_ok \in BOOLEAN :
          LET found == GetAllPayers(payers, lookup.payer_id, db_ok)
          IN  lookup' = [state |-> "returned",
                         payor_name |-> lookup.payor_name,
                         payer_id |-> lookup.payer_id,
                         db_ok |-> db_ok,
                         candidates |-> found,
                         result |-> ResolveIn(found, lookup.payor_name)]
    /\ UNCHANGED <<submitvars, payers, pipevars, decvars, apivars>>

ResolveNext == GetTradingPartnerIdReturns

ResolveSpec == ResolveInit /\ [][ResolveNext]_vars

\* the candidate row names payor_name exactly, in either column
NamesExactly(row, payor_name) ==
    \E col \in {"DisplayName", "Aliases"} :
        /\ ~row[col].isnull
        /\ NormalizeName(row[col].text) = NormalizeName(payor_name)

\* C20: whenever a candidate's DisplayName or Aliases normalizes to exactly the
\* normalized input name, the resolver returns the id of a candidate with such
\* an exact match, whatever partial or keyword match is listed before it.
C20_ExactMatchWins ==
    lookup.state = "returned" =>
        LET rows == lookup.candidates
            exact == { i \in DOMAIN rows : NamesExactly(rows[i], lookup.payor_name) }
        IN  exact # {} =>
                \E i \in exact : lookup.result = rows[i].PrimaryPayerId

\* records [A: AETNA HEALTH, B: AETNA] and input AETNA gave B
C20_Witness ==
    /\ lookup.state = "returned"
    /\ lookup.payor_name = AETNA
    /\ Len(lookup.candidates) = 2
    /\ lookup.candidates[1].DisplayName = Text(AETNA_HEALTH)
    /\ lookup.candidates[1].PrimaryPayerId = IdA
    /\ lookup.candidates[2].DisplayName = Text(AETNA)
    /\ lookup.result = IdB

\* the normalized texts of the columns of a candidate row that hold a value
FieldsOf(row) ==
    { NormalizeName(row[col].text) :
        col \in { c \in {"DisplayName", "Aliases"} : ~row[c].isnull } }

\* the normalized input name is a substring of a field of the row
InputInField(row, payor_name) ==
    \E f \in FieldsOf(row) : Contains(NormalizeName(payor_name), f)

\* a field of the row, not an empty one, is a substring of the normalized input name
FieldInInput(row, payor_name) ==
    \E f \in FieldsOf(row) : f # <<>> /\ Contains(f, NormalizeName(payor_name))

\* the number of keywords of the input shared with the row's DisplayName plus
\* the number shared with its Aliases
SharedKeywords(row, payor_name) ==
    LET Shared(x) == IF x.isnull THEN {}
                     ELSE ExtractKeywords(payor_name) \cap ExtractKeywords(x.text)
    IN  Cardinality(Shared(row.DisplayName)) + Cardinality(Shared(row.Aliases))

\* the rows of the call that returned which match the input at stage 1, at
\* stage 2 in either direction, and at no stage before stage 3
ExactRows ==
    { i \in DOMAIN lookup.candidates :
        NamesExactly(lookup.candidates[i], lookup.payor_name) }

PartialRows ==
    { i \in DOMAIN lookup.candidates :
        \/ InputInField(lookup.candidates[i], lookup.payor_name)
        \/ FieldInInput(lookup.candidates[i], lookup.payor_name) }

ScoreOf(i) == SharedKeywords(lookup.candidates[i], lookup.payor_name)

\* C21: when no candidate matches exactly and some candidate matches partially,
\* the input being a substring of one of its fields or one of its fields a
\* substring of the input, the resolver returns the id of a candidate that
\* matches partially.
C21_PartialMatchEitherDirection ==
    lookup.state = "returned" =>
        ((ExactRows = {} /\ PartialRows # {}) =>
            \E i \in PartialRows :
                lookup.result = lookup.candidates[i].PrimaryPayerId)

\* C22: when no candidate matches at the exact or the partial stage and the
\* highest keyword score is positive, the resolver returns the id of the first
\* candidate, in the order of the candidates, whose score is the highest.
C22_KeywordStageFirstOfBest ==
    lookup.state = "returned" =>
        ((ExactRows = {} /\ PartialRows = {} /\ lookup.candidates # <<>>) =>
            LET rows == lookup.candidates
                best == { i \in DOMAIN rows :
                            \A j \in DOMAIN rows : ScoreOf(j) <= ScoreOf(i) }
                first == CHOOSE i \in best : \A j \in best : i <= j
            IN  ScoreOf(first) > 0 =>
                    lookup.result = rows[first].PrimaryPayerId)

\* [A: AETNA HEALTH, C: alias " aetna,  Inc."] and input "Health Inc": both
\* score 1 and neither matches exactly or partially; the first one is returned
C22_Witness ==
    /\ lookup.state = "returned"
    /\ lookup.payor_name = HEALTH_INC
    /\ Len(lookup.candidates) = 2
    /\ lookup.candidates[1].PrimaryPayerId = IdA
    /\ lookup.candidates[2].PrimaryPayerId = IdC
    /\ ExactRows = {} /\ PartialRows = {}
    /\ ScoreOf(1) = 1 /\ ScoreOf(2) = 1
    /\ lookup.result = IdA

\* C23 as stated: whenever there are candidates and every candidate's keyword
\* score with the input is 0, the resolver returns the empty string.
C23_ZeroScoreReturnsEmpty ==
    lookup.state = "returned" =>
        ((lookup.candidates # <<>>
            /\ \A i \in DOMAIN lookup.candidates : ScoreOf(i) = 0) =>
                lookup.result = <<>>)

\* C23 as amended: whenever there are candidates, none matches at the exact or
\* the partial stage and every candidate's keyword score with the input is 0,
\* the resolver returns the empty string.
C23_ZeroScoreNoEarlierMatchReturnsEmpty ==
    lookup.state = "returned" =>
        ((lookup.candidates # <<>>
            /\ ExactRows = {} /\ PartialRows = {}
            /\ \A i \in DOMAIN lookup.candidates : ScoreOf(i) = 0) =>
                lookup.result = <<>>)

\* [A: AETNA HEALTH] and input CIGNA gave the empty string
C23_Witness ==
    /\ lookup.state = "returned"
    /\ lookup.payor_name = CIGNA
    /\ Len(lookup.candidates) = 1
    /\ lookup.candidates[1].DisplayName = Text(AETNA_HEALTH)
    /\ ScoreOf(1) = 0
    /\ lookup.result = <<>>

----------------------------------------------------------------------------
(* Payload construction and the two pipelines: ClaimService.process_claims_from_csv
   and Processor.load_records / build_payloads.  PipeSpec *)

\* the most records of an input file
MaxRows == 3

\* df.iloc[0:2]
ReadRows == 2

\* self.max_concurrent_requests
DefaultMaxConcurrent == 50

\* an id shorter than this is looked up
MinIdLen == 5

ID60054 == <<"6", "0", "0", "5", "4">>

ID01_padded == <<" ", "0", "1", " ">>

NPI_017 == <<" ", "0", "1", "7">>

NPI_17 == <<"1", "7">>

NPI_1A == <<"1", "A">>

\* the records of an input file: no id, a short id between blanks, a full id;
\* no NPI, an NPI written with a blank and a leading zero, a plain NPI, and an
\* NPI that is not a number
CsvRows ==
    { [payer_name |-> AETNA, ECS_PAYOR_ID |-> Null, NPI |-> Null],
      [payer_name |-> CIGNA, ECS_PAYOR_ID |-> Text(ID01_padded), NPI |-> Text(NPI_017)],
      [payer_name |-> AETNA_HEALTH, ECS_PAYOR_ID |-> Text(ID60054), NPI |-> Text(NPI_17)],
      [payer_name |-> AETNA, ECS_PAYOR_ID |-> Null, NPI |-> Text(NPI_1A)] }

CsvFiles == UNION { [1..n -> CsvRows] : n \in 0..MaxRows }

\* the StediPayers table the pipelines look names up in
PipePayers ==
    << [PayerId |-> IdA, DisplayName |-> Text(AETNA_HEALTH), Aliases |-> Null,
        ClaimStatusInquiry |-> 1],
       [PayerId |-> IdB, DisplayName |-> Text(AETNA), Aliases |-> Text(<<>>),
        ClaimStatusInquiry |-> 1] >>

PipeInit ==
    /\ SubmitIdle /\ DecIdle
    /\ payers = PipePayers /\ lookup = NoLookup
    /\ prog \in {"ClaimService", "Processor"}
    /\ csv \in CsvFiles
    /\ ppc = "read"
    /\ calls = <<>>
    /\ ret = NoReturn

\* the columns generate_payloads_from_csv adds to a row
WithStatusColumns(row) ==
    [payer_name |-> row.payer_name, ECS_PAYOR_ID |-> row.ECS_PAYOR_ID,
     NPI |-> row.NPI, claim_status |-> "", denial_code |-> "", denial_category |-> "",
     denial_reason |-> "", final_steps |-> ""]

\* _read_eclaims_patients, and the columns added to what it returned
ReadEclaimsPatients ==
    /\ prog = "ClaimService" /\ ppc = "read"
    /\ LET kept == SubSeq(csv, 1, IF Len(csv) < ReadRows THEN Len(csv) ELSE ReadRows)
       IN  df' = [i \in DOMAIN kept |-> WithStatusColumns(kept[i])]
    /\ ppc' = "generate"
    /\ UNCHANGED <<payloads, max_concurrent, denial_info, semaphore, task, wire,
                   pc, k, denial_data, results, failed_requests>>
    /\ UNCHANGED <<decvars, resvars, timevars, enginevars, apivars, prog, csv, calls, ret>>

\* "if len(trading_partner_service_id) < 5" sends the id to the resolver
NeedsLookup(id) == Len(id) < MinIdLen

DigitChars == <<"0", "1", "2", "3", "4", "5", "6", "7", "8", "9">>

\* the text Python's int() reads: blanks around it dropped, a sign, then digits
IsIntLiteral(t) ==
    LET stripped == Strip(t)
        body == IF stripped # <<>> /\ Head(stripped) \in {"+", "-"}
                THEN Tail(stripped) ELSE stripped
    IN  body # <<>> /\ \A j \in DOMAIN body : body[j] \in Digits

\* int() of a sequence of digits
RECURSIVE IntOf(_)
IntOf(digits) ==
    IF digits = <<>> THEN 0
    ELSE 10 * IntOf(SubSeq(digits, 1, Len(digits) - 1))
         + (CHOOSE d \in 0..9 : DigitChars[d + 1] = digits[Len(digits)])

\* str() of a natural number
RECURSIVE StrOf(_)
StrOf(n) ==
    IF n < 10 THEN <<DigitChars[n + 1]>>
    ELSE StrOf(n \div 10) \o <<DigitChars[(n % 10) + 1]>>

\* an NPI that is taken as it is written, whatever it holds
NpiOf_AsWritten(cell) ==
    IF cell.isnull THEN [raised |-> FALSE, npi |-> <<>>]
    ELSE [raised |-> FALSE, npi |-> Strip(cell.text)]

\* "Get NPI" of _create_claim_payload_from_csv: str(int(npi_value)).strip(), ""
\* for NaN and for the empty text; int() raises ValueError on any other text
NpiOf(cell) ==
    IF cell.isnull \/ cell.text = <<>>
    THEN [raised |-> FALSE, npi |-> <<>>]
    ELSE IF ~IsIntLiteral(cell.text)
    THEN [raised |-> TRUE]
    ELSE LET stripped == Strip(cell.text)
             signed == Head(stripped) \in {"+", "-"}
             n == IntOf(IF signed THEN Tail(stripped) ELSE stripped)
         IN  [raised |-> FALSE,
              npi |-> (IF Head(stripped) = "-" /\ n # 0 THEN <<"-">> ELSE <<>>)
                      \o StrOf(n)]

\* the loop body of generate_payloads_from_csv, for the next row of df: the
\* lookup and the write-back first, then _create_claim_payload_from_csv, whose
\* exception leaves generate_payloads_from_csv and process_claims_from_csv
GenerateRow ==
    /\ prog = "ClaimService" /\ ppc = "generate"
    /\ Len(payloads) < Len(df)
    /\ LET i == Len(payloads) + 1
           row == df[i]
           payor_name == Strip(row.payer_name)
           ecs_id == row.ECS_PAYOR_ID
           candidate == IF ecs_id.isnull THEN <<>> ELSE Strip(ecs_id.text)
           npi == NpiOf(row.NPI)
       IN  \E db_ok \in BOOLEAN :
             LET id == IF NeedsLookup(candidate)
                       THEN GetTradingPartnerId(payor_name, candidate, payers, db_ok)
                       ELSE candidate
             IN  /\ NeedsLookup(candidate) \/ db_ok
                 /\ IF NeedsLookup(candidate)
                    THEN /\ calls' = Append(calls,
                                [index |-> i, payor_name |-> payor_name,
                                 payer_id |-> candidate, result |-> id])
                         /\ df' = SetCell(df, i, "ECS_PAYOR_ID", Text(id))
                    ELSE UNCHANGED <<calls, df>>
                 /\ IF npi.raised
                    THEN /\ ppc' = "raised"
                         /\ UNCHANGED payloads
                    ELSE /\ payloads' = Append(payloads,
                                [memberId |-> i, npi |-> npi.npi,
                                 tradingPartnerServiceId |-> id])
                         /\ UNCHANGED ppc
    /\ UNCHANGED <<max_concurrent, denial_info, semaphore, task, wire,
                   pc, k, denial_data, results, failed_requests>>
    /\ UNCHANGED <<decvars, resvars, timevars, enginevars, apivars, prog, csv, ret>>

\* a test that never finds the payload list empty
NoPayloads_Never(list) == FALSE

\* "if not payloads"
NoPayloads(list) == list = <<>>

\* process_claims_from_csv: return [], [], df
ReturnEarly ==
    /\ prog = "ClaimService" /\ ppc = "generate"
    /\ Len(payloads) = Len(df)
    /\ NoPayloads(payloads)
    /\ ret' = [arity |-> 3, results |-> <<>>, failed_results |-> <<>>]
    /\ ppc' = "returned"
    /\ UNCHANGED <<submitvars, decvars, resvars, apivars, prog, csv, calls>>

\* a call of submit made as soon as one payload exists
CallSubmit_Early ==
    /\ prog = "ClaimService" /\ ppc = "generate"
    /\ ~NoPayloads(payloads)
    /\ max_concurrent' = DefaultMaxConcurrent
    /\ denial_info' \in DenialInfos
    /\ semaphore' = DefaultMaxConcurrent
    /\ task' = [i \in 1..N |-> "waiting"]
    /\ wire' = [i \in 1..N |-> NoWire]
    /\ pc' = "gather"
    /\ ppc' = "submit"
    /\ UNCHANGED <<payloads, k, denial_data, df, results, failed_requests>>
    /\ UNCHANGED <<decvars, resvars, timevars, enginevars, apivars, prog, csv, calls, ret>>

\* process_claims_from_csv calls submit_claim_status_requests(payloads, df, None)
CallSubmit ==
    /\ prog = "ClaimService" /\ ppc = "generate"
    /\ Len(payloads) = Len(df)
    /\ ~NoPayloads(payloads)
    /\ max_concurrent' = DefaultMaxConcurrent
    /\ denial_info' \in DenialInfos
    /\ semaphore' = DefaultMaxConcurrent
    /\ task' = [i \in 1..N |-> "waiting"]
    /\ wire' = [i \in 1..N |-> NoWire]
    /\ pc' = "gather"
    /\ ppc' = "submit"
    /\ UNCHANGED <<payloads, k, denial_data, df, results, failed_requests>>
    /\ UNCHANGED <<decvars, resvars, timevars, enginevars, apivars, prog, csv, calls, ret>>

\* submit returned: df.to_csv, return results, failed_results
SubmitReturned ==
    /\ prog = "ClaimService" /\ ppc = "submit" /\ pc = "done"
    /\ ret' = [arity |-> 2, results |-> results, failed_results |-> failed_requests]
    /\ ppc' = "returned"
    /\ UNCHANGED <<submitvars, decvars, resvars, apivars, prog, csv, calls>>

\* submit raised: the exception leaves process_claims_from_csv
SubmitRaised ==
    /\ prog = "ClaimService" /\ ppc = "submit" /\ pc = "raised"
    /\ ppc' = "raised"
    /\ UNCHANGED <<submitvars, decvars, resvars, apivars, prog, csv, calls, ret>>

\* "data[...], data[...] = value": unpacking into two targets takes a tuple of two
Unpacks(value) == value.arity = 2

\* payer_info: the counts of the two lists, or HTTP 500 for any exception, that
\* of the unpacking included
PayerInfoAnswers ==
    /\ prog = "ClaimService" /\ ppc \in {"returned", "raised"}
    /\ answer = NoAnswer
    /\ answer' = IF ppc = "returned" /\ Unpacks(ret)
                 THEN [status |-> "200", successful |-> Len(ret.results),
                       failed |-> Len(ret.failed_results)]
                 ELSE [status |-> "500"]
    /\ UNCHANGED <<submitvars, decvars, resvars, pipevars>>

\* Processor.load_records: every record of the file
LoadRecords ==
    /\ prog = "Processor" /\ ppc = "read"
    /\ df' = csv
    /\ ppc' = "build"
    /\ UNCHANGED <<payloads, max_concurrent, denial_info, semaphore, task, wire,
                   pc, k, denial_data, results, failed_requests>>
    /\ UNCHANGED <<decvars, resvars, timevars, enginevars, apivars, prog, csv, calls, ret>>

\* Processor.create_payload.safe_value on a text cell or a NaN: None is <<>>,
\* which every test made on the value ("if ecs_id", "if payer_id", "or ''")
\* takes for the empty text
SafeValue(cell) == IF cell.isnull THEN <<>> ELSE Strip(cell.text)

\* Processor.build_payloads: create_payload for the next record
CreatePayload ==
    /\ prog = "Processor" /\ ppc = "build"
    /\ Len(payloads) < Len(df)
    /\ LET i == Len(payloads) + 1
           record == df[i]
           payor_name == Strip(record.payer_name)
           ecs_id == SafeValue(record.ECS_PAYOR_ID)
       IN  IF ecs_id # <<>> /\ ~NeedsLookup(ecs_id)
           THEN /\ payloads' = Append(payloads,
                       [memberId |-> i, npi |-> SafeValue(record.NPI),
                        tradingPartnerServiceId |-> ecs_id])
                /\ UNCHANGED calls
           ELSE \E db_ok \in BOOLEAN :
                  LET id == GetTradingPartnerId(payor_name, ecs_id, payers, db_ok)
                  IN  /\ calls' = Append(calls, [index |-> i, payor_name |-> payor_name,
                                                 payer_id |-> ecs_id, result |-> id])
                      /\ payloads' = Append(payloads,
                             [memberId |-> i, npi |-> SafeValue(record.NPI),
                              tradingPartnerServiceId |-> id])
    /\ UNCHANGED <<max_concurrent, denial_info, semaphore, task, wire,
                   pc, k, denial_data, df, results, failed_requests>>
    /\ UNCHANGED <<decvars, resvars, timevars, enginevars, apivars, prog, csv, ppc, ret>>

\* Processor.build_payloads returns the payload list
BuildReturns ==
    /\ prog = "Processor" /\ ppc = "build"
    /\ Len(payloads) = Len(df)
    /\ ppc' = "built"
    /\ UNCHANGED <<submitvars, decvars, resvars, apivars, prog, csv, calls, ret>>

PipeNext ==
    \/ ReadEclaimsPatients
    \/ GenerateRow
    \/ ReturnEarly
    \/ CallSubmit
    \/ \E i \in 1..N : Admit(i)
    \/ \E i \in 1..N : Complete(i)
    \/ GatherReturns
    \/ ProcessResult
    \/ Return
    \/ SubmitReturned
    \/ SubmitRaised
    \/ PayerInfoAnswers
    \/ LoadRecords
    \/ CreatePayload
    \/ BuildReturns

PipeSpec == PipeInit /\ [][PipeNext]_vars

----------------------------------------------------------------------------
(* Claims about payload construction and the pipeline *)

\* the candidate id of an input record: its id field trimmed, empty when missing
CandidateId(record) ==
    IF record.ECS_PAYOR_ID.isnull THEN <<>> ELSE Strip(record.ECS_PAYOR_ID.text)

\* the resolver calls made for record i
CallsFor(i) == { c \in DOMAIN calls : calls[c].index = i }

\* record i was constructed as the claim says
ConstructedAsSpecified(i) ==
    IF Len(CandidateId(csv[i])) < 5
    THEN \E c \in CallsFor(i) :
            /\ calls[c].payor_name = Strip(csv[i].payer_name)
            /\ calls[c].payer_id = CandidateId(csv[i])
            /\ payloads[i].tradingPartnerServiceId = calls[c].result
            /\ df[i].ECS_PAYOR_ID = Text(calls[c].result)
    ELSE /\ CallsFor(i) = {}
         /\ payloads[i].tradingPartnerServiceId = CandidateId(csv[i])
         /\ df[i].ECS_PAYOR_ID = csv[i].ECS_PAYOR_ID

\* C11: for every record a payload was constructed for: a candidate id shorter
\* than 5 went to the resolver with the organization name, and the resolver's
\* result is both the payload's tradingPartnerServiceId and the record's id
\* field; a candidate id of 5 or more was used as-is, without a resolver call,
\* and the record's id field is unchanged.
C11_ShortIdResolvedAndWrittenBack ==
    prog \in {"ClaimService", "Processor"} =>
        \A i \in 1..Len(payloads) : ConstructedAsSpecified(i)

\* the requests sent so far
Dispatched == { i \in DOMAIN task : task[i] \in {"inflight", "done"} }

\* C12: when the batch has ended, exactly one request was sent per record of
\* the input: none skipped, none sent twice.
C12_OneRequestPerRecord ==
    (prog = "ClaimService" /\ ppc \in {"returned", "raised"}) =>
        /\ Len(payloads) = Len(csv)
        /\ Cardinality(Dispatched) = Len(csv)

\* C13: with no record in the input, process_claims_from_csv returns early with
\* empty results and failures: submit is never called, no request is sent, no
\* row is processed and no resolver call is made.
C13_EmptyInputReturnsEarly ==
    (prog = "ClaimService" /\ csv = <<>>) =>
        /\ pc = "idle" /\ task = <<>> /\ Dispatched = {}
        /\ payloads = <<>> /\ calls = <<>> /\ results = <<>> /\ failed_requests = <<>>
        /\ ppc \in {"read", "generate", "returned"}
        /\ ppc = "returned" =>
              /\ ret.results = <<>>
              /\ ret.failed_results = <<>>

\* the pipeline returned on an input without records
C13_Witness ==
    /\ prog = "ClaimService" /\ csv = <<>> /\ ppc = "returned"
    /\ ret.results = <<>> /\ ret.failed_results = <<>>

\* a response was decoded or written: the result loop runs or ran, or a list
\* or a status cell holds something
ResponseHandled ==
    \/ pc \in {"process", "done", "raised"}
    \/ k > 1 \/ results # <<>> \/ failed_requests # <<>>
    \/ \E i \in DOMAIN df : df[i].claim_status # "" \/ df[i].denial_code # ""

\* C37: in process_claims_from_csv, once a request is dispatched the payload
\* list is complete and neither it nor the list of resolver calls changes any
\* more; and no response is decoded or written to a row before every request
\* of the batch has completed.
C37_BuildThenSendThenDecode ==
    /\ [](prog = "ClaimService" =>
            /\ Dispatched # {} => (Len(payloads) = Len(df) /\ ppc # "generate")
            /\ ResponseHandled => AllTasksDone)
    /\ [][(prog = "ClaimService" /\ Dispatched # {}) =>
              (payloads' = payloads /\ calls' = calls)]_vars

\* two payloads, one of them after a resolver call, were built; both requests
\* were answered before the first row was written
C37_Witness ==
    /\ prog = "ClaimService" /\ N = 2 /\ calls # <<>>
    /\ pc = "process" /\ k = 2
    /\ AllTasksDone
    /\ df[1].claim_status # "" /\ df[2].claim_status = ""

\* payload construction raised: the exception left process_claims_from_csv
\* before submit was called
ConstructionRaised == prog = "ClaimService" /\ ppc = "raised" /\ pc = "idle"

\* C39: payload construction never fails because of what a record holds: a
\* missing or malformed NPI gives a payload like any other, and every record
\* read has its payload when construction ends.
C39_ConstructionNeverFails ==
    /\ ~ConstructionRaised
    /\ (prog = "ClaimService" /\ ppc \in {"submit", "returned"}) =>
          Len(payloads) = Len(df)

\* C40: process_claims_from_csv returns a pair (results, failures) whether or
\* not the input holds records, and the endpoint answers an input without
\* records with zero successful and zero failed requests.
C40_SameShapeOnEmptyInput ==
    prog = "ClaimService" =>
        /\ ppc = "returned" => ret.arity = 2
        /\ (csv = <<>> /\ answer # NoAnswer) =>
              answer = [status |-> "200", successful |-> 0, failed |-> 0]

----------------------------------------------------------------------------
(* Processor.send_requests_concurrent: SendSpec.  bounded_request, the
   semaphore and gather are those of submit_claim_status_requests (Admit and
   GatherReturns); ret holds the list the call returned. *)

\* an exception that leaves a task: gather(return_exceptions=True) returns it
Raised == [kind |-> "raised"]

\* a slot of [None] * len(payloads) not written yet
NoResponse == [isnone |-> TRUE]

\* the response dict Processor._make_request returns for a wire outcome
MakeRequest(w) ==
    IF w.kind = "transport"
    THEN [status_code |-> "0", success |-> FALSE, error |-> "ClientError"]
    ELSE IF w.kind = "timeout"
    THEN [status_code |-> "0", success |-> FALSE, error |-> "Unexpected error: timeout"]
    ELSE IF w.body.kind = "unparseable"
    THEN [status_code |-> "0", success |-> FALSE, error |-> "Unexpected error: json"]
    ELSE [status_code |-> w.status, success |-> (w.status = "200"),
          response |-> w.body.json]

\* the response put in a slot that no task wrote
RequestFailed == [status_code |-> "0", success |-> FALSE, error |-> "Request failed"]

SendInit ==
    /\ \E n \in 0..MaxN : payloads \in PayloadLists(n)
    /\ max_concurrent \in 0..MaxLimit
    /\ semaphore = max_concurrent
    /\ task = [i \in 1..N |-> "waiting"]
    /\ wire = [i \in 1..N |-> NoWire]
    /\ pc = "gather"
    /\ denial_info = [kind |-> "none"] /\ k = 1 /\ denial_data = EmptyDict
    /\ df = <<>> /\ results = <<>> /\ failed_requests = <<>>
    /\ TimeIdle /\ EngineIdle /\ ApiIdle /\ ResIdle /\ DecIdle
    /\ prog = "Processor" /\ csv = <<>> /\ ppc = "send" /\ calls = <<>>
    /\ ret = NoReturn

\* the request of task i ends: _make_request returns its tuple, or an exception
\* leaves the task; the semaphore is released on leaving "async with"
SendComplete(i) ==
    /\ pc = "gather" /\ ppc = "send"
    /\ task[i] = "inflight"
    /\ \E w \in Wire \cup {Raised} :
          /\ wire' = [wire EXCEPT ![i] = w]
          /\ semaphore' = Release(semaphore, w)
    /\ task' = [task EXCEPT ![i] = "done"]
    /\ UNCHANGED <<payloads, max_concurrent, denial_info, pc, k,
                   denial_data, df, results, failed_requests, aux>>

\* gather's list: entry i is what task i returned or raised
SendCompletedResults ==
    [i \in 1..N |->
        IF wire[i] = Raised THEN [kind |-> "exception"]
        ELSE [kind |-> "tuple", index |-> i, response |-> MakeRequest(wire[i])]]

\* a loop that writes every response to the first slot
PlaceResponse_FirstSlot(responses, index, response) ==
    [responses EXCEPT ![1] = response]

\* responses[index] = response
PlaceResponse(responses, index, response) ==
    [responses EXCEPT ![index] = response]

\* "for result in completed_results", from entry n on
RECURSIVE PlaceResponses(_, _, _)
PlaceResponses(responses, completed, n) ==
    IF n > Len(completed) THEN responses
    ELSE IF completed[n].kind = "exception"
    THEN PlaceResponses(responses, completed, n + 1)
    ELSE PlaceResponses(PlaceResponse(responses, completed[n].index,
                                      completed[n].response),
                        completed, n + 1)

\* "Replace any None values with error responses"
ReplaceNone(responses) ==
    [i \in DOMAIN responses |->
        IF responses[i] = NoResponse THEN RequestFailed ELSE responses[i]]

\* after gather: the two loops run and send_requests_concurrent returns
SendReturns ==
    /\ pc = "process" /\ ppc = "send"
    /\ LET empty == [i \in 1..N |-> NoResponse]
           responses == ReplaceNone(PlaceResponses(empty, SendCompletedResults, 1))
       IN  ret' = [arity |-> 1, responses |-> responses]
    /\ pc' = "done"
    /\ ppc' = "returned"
    /\ UNCHANGED <<payloads, max_concurrent, denial_info, semaphore, task, wire, k,
                   denial_data, df, results, failed_requests>>
    /\ UNCHANGED <<decvars, resvars, timevars, enginevars, apivars, prog, csv, calls>>

SendNext ==
    \/ \E i \in 1..N : Admit(i)
    \/ \E i \in 1..N : SendComplete(i)
    \/ GatherReturns
    \/ SendReturns

SendSpec == SendInit /\ [][SendNext]_vars

\* the response is the outcome w of a request: the status and body of an
\* answer, a failure without them when there was no answer or no result
OutcomeOf(response, w) ==
    IF w.kind = "http" /\ w.body.kind = "json"
    THEN /\ response.status_code = w.status
         /\ response.success = (w.status = "200")
         /\ response.response = w.body.json
    ELSE /\ response.status_code = "0"
         /\ ~response.success
         /\ "error" \in DOMAIN response
         /\ (w = Raised) = (response.error = "Request failed")

\* C26: the list send_requests_concurrent returns has one response for each
\* payload, and the response at index i is the outcome of payload i: a failed
\* response when the request gave no result.
C26_ResponsesAlignedWithPayloads ==
    ret.arity = 1 =>
        /\ Len(ret.responses) = N
        /\ \A i \in 1..N : /\ ret.responses[i] # NoResponse
                            /\ OutcomeOf(ret.responses[i], wire[i])

\* two payloads, the first got a 404 and the second's task gave no result
C26_Witness ==
    /\ ret.arity = 1 /\ N = 2
    /\ wire[1].kind = "http" /\ wire[1].status = "404" /\ wire[1].body.kind = "json"
    /\ wire[2] = Raised
    /\ ret.responses[1].status_code = "404"
    /\ ret.responses[2] = RequestFailed

----------------------------------------------------------------------------
(* StediClient.send_request, the synchronous client: ClientSpec.  payloads
   holds the one payload, wire what requests.post did with it and ret the
   result dict. *)

\* the statuses an answer can carry
ClientStatuses == {"200", "400", "404", "500"}

\* the bodies of an answer: JSON that response.json() decodes, or a text
ClientBodies ==
    { [kind |-> "json", json |-> JDict([success |-> FALSE, error |-> "Bad Request"])],
      [kind |-> "json", json |-> JDict([error |-> "Not Found"])],
      [kind |-> "json", json |-> JDict([message |-> "msg"])],
      [kind |-> "json", json |-> JDict([success |-> TRUE])],
      [kind |-> "json", json |-> JDict([x12 |-> "x1"])],
      [kind |-> "json", json |-> JList],
      [kind |-> "json", json |-> JNull],
      [kind |-> "text", text |-> ""],
      [kind |-> "text", text |-> "<html>"] }

\* what requests.post does: it raises, or it returns an answer
ClientWire ==
    { [kind |-> "transport"] }
    \cup { [kind |-> "http", status |-> st, body |-> b] :
             st \in ClientStatuses, b \in ClientBodies }

\* the result dict of send_request
SendRequest(w) ==
    IF w.kind = "transport"
    THEN [status_code |-> "0", success |-> FALSE, error |-> "ConnectionError"]
    ELSE [status_code |-> w.status,
          success |-> (w.status = "200"),
          response |-> IF w.body.kind = "json" THEN w.body.json ELSE w.body.text]

ClientInit ==
    /\ payloads \in { <<[memberId |-> i]>> : i \in 0..MaxN }
    /\ wire = <<NoWire>>
    /\ max_concurrent = 0 /\ denial_info = [kind |-> "none"] /\ semaphore = 0
    /\ task = <<>> /\ pc = "idle" /\ k = 1 /\ denial_data = EmptyDict
    /\ df = <<>> /\ results = <<>> /\ failed_requests = <<>>
    /\ TimeIdle /\ EngineIdle /\ ApiIdle /\ ResIdle /\ DecIdle
    /\ prog = "StediClient" /\ csv = <<>> /\ ppc = "send_request" /\ calls = <<>>
    /\ ret = NoReturn

\* send_request posts the payload and returns its result
SendRequestReturns ==
    /\ prog = "StediClient" /\ ppc = "send_request"
    /\ \E w \in ClientWire :
          /\ wire' = <<w>>
          /\ ret' = [arity |-> 1, result |-> SendRequest(w)]
    /\ ppc' = "returned"
    /\ UNCHANGED <<payloads, max_concurrent, denial_info, semaphore, task, pc, k,
                   denial_data, df, results, failed_requests>>
    /\ UNCHANGED <<decvars, resvars, timevars, enginevars, apivars, prog, csv, calls>>

ClientNext == SendRequestReturns

ClientSpec == ClientInit /\ [][ClientNext]_vars

\* the answer's body is a JSON object that carries an error message
CarriesErrorMessage(w) ==
    /\ w.kind = "http" /\ w.body.kind = "json"
    /\ IsDict(w.body.json) /\ "error" \in DOMAIN w.body.json.d

\* C27: send_request reports success exactly when the HTTP status is 200, and
\* when the status is not 200 and the body carries an error message, the
\* result holds that message in its own "error" field.
C27_SuccessIff200AndErrorExposed ==
    (prog = "StediClient" /\ ppc = "returned") =>
        LET w == wire[1]
            result == ret.result
        IN  /\ result.success = (w.kind = "http" /\ w.status = "200")
            /\ (CarriesErrorMessage(w) /\ w.status # "200") =>
                  /\ "error" \in DOMAIN result
                  /\ result.error = w.body.json.d.error

----------------------------------------------------------------------------
(* The decoder: X12ClaimParser.parse.  A transaction text, its lines and the
   fields of a segment are texts (sequences of characters), and the splits,
   the slices and the formats of parse() are computed on them. *)

\* the first position of character c in s, 0 when s has none
Find(s, c) ==
    IF \E i \in DOMAIN s : s[i] = c
    THEN CHOOSE i \in DOMAIN s : s[i] = c /\ \A j \in 1..(i - 1) : s[j] # c
    ELSE 0

\* s.split(c), c one character
RECURSIVE SplitOn(_, _)
SplitOn(s, c) ==
    LET at == Find(s, c)
    IN  IF at = 0 THEN <<s>>
        ELSE <<SubSeq(s, 1, at - 1)>> \o SplitOn(SubSeq(s, at + 1, Len(s)), c)

\* s.replace(c, with), c one character
RECURSIVE Replace(_, _, _)
Replace(s, c, with) ==
    LET at == Find(s, c)
    IN  IF at = 0 THEN s
        ELSE SubSeq(s, 1, at - 1) \o with \o Replace(SubSeq(s, at + 1, Len(s)), c, with)

\* content.replace('~', '~\n').split('\n')
Lines(content) == SplitOn(Replace(content, "~", <<"~", "\n">>), "\n")

\* line.replace('~', '').split('*')
Segments(line) == SplitOn(Replace(line, "~", <<>>), "*")

\* segments[n] if len(segments) > n else default
Field(segments, n, default) ==
    IF Len(segments) > n THEN segments[n + 1] ELSE default

\* a date left as it was read
FormatDate_AsRead(d) == d

\* f"{d[4:6]}/{d[6:8]}/{d[0:4]}" on a text of 8 characters
FormatDate(d) ==
    SubSeq(d, 5, 6) \o <<"/">> \o SubSeq(d, 7, 8) \o <<"/">> \o SubSeq(d, 1, 4)

ZeroAmount == <<"0", ".", "0", "0">>

T_HL == <<"H", "L">>

T_NM1 == <<"N", "M", "1">>

T_TRN == <<"T", "R", "N">>

T_STC == <<"S", "T", "C">>

T_REF == <<"R", "E", "F">>

T_DTP == <<"D", "T", "P">>

T_SVC == <<"S", "V", "C">>

\* the dict a level-22 HL creates; pending_dos is the '_pending_dos' key,
\* <<>> when the dict has no such key
NewClaim ==
    [claim_number |-> <<>>, status_code |-> <<>>, status_code2 |-> <<>>,
     total_charge |-> ZeroAmount, paid_amount |-> ZeroAmount,
     patient_name |-> <<>>, patient_id |-> <<>>, services |-> <<>>,
     claim_adjustments |-> <<>>, check_number |-> <<>>, check_date |-> <<>>,
     adjudication_date |-> <<>>, pending_dos |-> <<>>]

\* hierarchical_levels[hl_id] = {...}
PutLevel(levels, hl_id, parent_id, level_code) ==
    [id \in DOMAIN levels \cup {hl_id} |->
        IF id = hl_id THEN [parent |-> parent_id, level |-> level_code]
        ELSE levels[id]]

\* a test that takes every level for the claim level
OpensClaim_AnyLevel(level_code) == TRUE

\* level_code == '22'
OpensClaim(level_code) == level_code = <<"2", "2">>

\* a level-22 HL that leaves the service line of the claim it commits open
HandleHL_KeepsService(st, segments) ==
    LET level_code == Field(segments, 3, <<>>)
        st1 == [st EXCEPT !.hierarchical_levels =
                              PutLevel(@, Field(segments, 1, <<>>),
                                       Field(segments, 2, <<>>), level_code)]
    IN  IF OpensClaim(level_code)
        THEN [st1 EXCEPT !.claims = IF st.current_claim # <<>>
                                    THEN Append(@, st.current_claim[1]) ELSE @,
                         !.current_claim = <<NewClaim>>]
        ELSE st1

\* segment HL.  st holds parse()'s locals and self.claims
HandleHL(st, segments) ==
    LET hl_id == Field(segments, 1, <<>>)
        parent_id == Field(segments, 2, <<>>)
        level_code == Field(segments, 3, <<>>)
        st1 == [st EXCEPT !.hierarchical_levels =
                              PutLevel(@, hl_id, parent_id, level_code)]
    IN  IF OpensClaim(level_code)
        THEN [st1 EXCEPT !.claims = IF st.current_claim # <<>>
                                    THEN Append(@, st.current_claim[1]) ELSE @,
                         !.current_claim = <<NewClaim>>,
                         !.current_service = 0]
        ELSE st1

\* a name composed last name first
HandleNM1_LastFirst(st, segments) ==
    IF Field(segments, 1, <<>>) = <<"I", "L">>
    THEN [st EXCEPT !.current_claim[1].patient_name =
                        Strip(Field(segments, 3, <<>>) \o <<" ">>
                                \o Field(segments, 4, <<>>)),
                    !.current_claim[1].patient_id = Field(segments, 9, <<>>)]
    ELSE st

\* segment NM1 with a claim open
HandleNM1(st, segments) ==
    LET entity_code == Field(segments, 1, <<>>)
        last_name == Field(segments, 3, <<>>)
        first_name == Field(segments, 4, <<>>)
        patient_id == Field(segments, 9, <<>>)
    IN  IF entity_code = <<"I", "L">>
        THEN [st EXCEPT !.current_claim[1].patient_name =
                            Strip(first_name \o <<" ">> \o last_name),
                        !.current_claim[1].patient_id = patient_id]
        ELSE st

\* segment TRN with a claim open
HandleTRN(st, segments) ==
    IF Len(segments) > 2
    THEN [st EXCEPT !.current_claim[1].claim_number = segments[3]]
    ELSE st

\* status_positions
StatusPositions == <<1, 10, 11>>

DefaultEntity == <<"1", "P">>

\* f"{status_code}:{reason_code}:{entity_code}"
AdjKey(status_code, reason_code, entity_code) ==
    status_code \o <<":">> \o reason_code \o <<":">> \o entity_code

\* one turn of "for pos in status_positions": acc holds the service dict and
\* the set adjustment_keys
StatusPosition(acc, segments, p) ==
    IF Len(segments) > p /\ segments[p + 1] # <<>>
    THEN LET status_info == SplitOn(segments[p + 1], ":")
             status_code == status_info[1]
             reason_code == Field(status_info, 1, <<>>)
             entity_code == Field(status_info, 2, DefaultEntity)
             adj_key == AdjKey(status_code, reason_code, entity_code)
             service == acc.service
             adjustment ==
                 [status_code |-> status_code, reason_code |-> reason_code,
                  amount |-> service.charge,
                  entity_code |-> IF entity_code # <<>> THEN entity_code
                                  ELSE DefaultEntity]
         IN  IF (status_code # <<>> \/ reason_code # <<>>)
                   /\ adj_key \notin acc.adjustment_keys
             THEN [adjustment_keys |-> acc.adjustment_keys \cup {adj_key},
                   service |->
                       [service EXCEPT
                           !.status_code = IF @ = <<>> THEN status_code ELSE @,
                           !.status_code2 = IF @ = <<>> THEN reason_code ELSE @,
                           !.adjustments = Append(@, adjustment)]]
             ELSE acc
    ELSE acc

RECURSIVE StatusPositionsFrom(_, _, _)
StatusPositionsFrom(acc, segments, n) ==
    IF n > Len(StatusPositions) THEN acc
    ELSE StatusPositionsFrom(StatusPosition(acc, segments, StatusPositions[n]),
                             segments, n + 1)

\* a service-level branch that writes the status to the claim
HandleServiceSTC_ClaimLevel(st, segments) ==
    [st EXCEPT !.current_claim[1].status_code =
                   SplitOn(Field(segments, 1, <<>>), ":")[1]]

\* segment STC with a service line open: adjustment_keys starts empty
HandleServiceSTC(st, segments) ==
    LET service == st.current_claim[1].services[st.current_service]
        done == StatusPositionsFrom([adjustment_keys |-> {}, service |-> service],
                                    segments, 1)
    IN  [st EXCEPT !.current_claim[1].services[st.current_service] = done.service]

\* segment STC with a claim open and no service line open
HandleClaimSTC(st, segments) ==
    LET claim == st.current_claim[1]
        status_info == SplitOn(Field(segments, 1, <<>>), ":")
        c1 == IF Len(segments) > 1
              THEN [claim EXCEPT !.status_code = status_info[1],
                                 !.status_code2 = Field(status_info, 1, <<>>)]
              ELSE claim
        date_str == Field(segments, 2, <<>>)
        c2 == IF Len(segments) > 2 /\ date_str # <<>> /\ Len(date_str) = 8
              THEN [c1 EXCEPT !.adjudication_date = FormatDate(date_str)]
              ELSE c1
        c3 == IF Len(segments) > 4 /\ segments[5] # <<>>
              THEN [c2 EXCEPT !.total_charge = segments[5]]
              ELSE c2
        adjustment == [status_code |-> c3.status_code,
                       reason_code |-> c3.status_code2,
                       amount |-> c3.total_charge,
                       entity_code |-> <<>>]
    IN  [st EXCEPT !.current_claim[1] =
            [c3 EXCEPT !.claim_adjustments = Append(@, adjustment)]]

\* segment REF with a claim open
HandleREF(st, segments) ==
    IF Field(segments, 1, <<>>) = <<"1", "K">>
    THEN [st EXCEPT !.current_claim[1].claim_number = Field(segments, 2, <<>>)]
    ELSE st

\* the formatted service date of a DTP*472 segment, <<>> for None
ServiceDate(date_format, date_value) ==
    IF date_format = <<"D", "8">> /\ Len(date_value) = 8
    THEN FormatDate(date_value)
    ELSE IF date_format = <<"R", "D", "8">> /\ Find(date_value, "-") # 0
    THEN LET start_date == SplitOn(date_value, "-")[1]
         IN  IF Len(start_date) = 8 THEN FormatDate(start_date) ELSE <<>>
    ELSE <<>>

\* segment DTP with a claim open
HandleDTP(st, segments) ==
    LET date_qualifier == Field(segments, 1, <<>>)
        date_format == Field(segments, 2, <<>>)
        date_value == Field(segments, 3, <<>>)
        formatted_date == ServiceDate(date_format, date_value)
    IN  IF date_qualifier = <<"4", "7", "2">> /\ formatted_date # <<>>
        THEN IF st.current_service # 0
             THEN [st EXCEPT !.current_claim[1].services[st.current_service].dos =
                                 formatted_date]
             ELSE IF st.current_claim[1].pending_dos = <<>>
             THEN [st EXCEPT !.current_claim[1].pending_dos = <<formatted_date>>]
             ELSE st
        ELSE st

\* a service line that takes the stashed date and leaves it stashed
HandleSVC_KeepsStash(st, segments) ==
    LET claim == st.current_claim[1]
        service ==
            [cpt_code |-> Field(segments, 1, <<>>), modifier |-> <<>>,
             charge |-> Field(segments, 2, ZeroAmount),
             paid |-> Field(segments, 3, ZeroAmount),
             dos |-> IF claim.pending_dos # <<>> THEN claim.pending_dos[1] ELSE <<>>,
             adjustments |-> <<>>, status_code |-> <<>>, status_code2 |-> <<>>]
    IN  [st EXCEPT !.current_claim[1].services = Append(@, service),
                   !.current_service = Len(claim.services) + 1]

\* segment SVC with a claim open
HandleSVC(st, segments) ==
    LET claim == st.current_claim[1]
        cpt_parts == SplitOn(Field(segments, 1, <<>>), ":")
        service ==
            [cpt_code |-> IF Len(segments) > 1
                          THEN (IF Len(cpt_parts) >= 2 THEN cpt_parts[2]
                                ELSE segments[2])
                          ELSE <<>>,
             modifier |-> IF Len(segments) > 1 /\ Len(cpt_parts) >= 3
                          THEN cpt_parts[3] ELSE <<>>,
             charge |-> Field(segments, 2, ZeroAmount),
             paid |-> Field(segments, 3, ZeroAmount),
             dos |-> IF claim.pending_dos # <<>> THEN claim.pending_dos[1] ELSE <<>>,
             adjustments |-> <<>>,
             status_code |-> <<>>,
             status_code2 |-> <<>>]
    IN  [st EXCEPT !.current_claim[1].services = Append(@, service),
                   !.current_claim[1].pending_dos = <<>>,
                   !.current_service = Len(claim.services) + 1]

----------------------------------------------------------------------------
(* The decoder called on a transaction text: DecodeSpec *)

\* the most segments of an enumerated transaction text
MaxSegs == 3

\* the most parse() calls made on one parser
MaxParses == 2

\* HL*1*0*22
L_HL22 ==
    <<"H", "L", "*", "1", "*", "0", "*", "2", "2">>

\* HL*2*1*20
L_HL20 ==
    <<"H", "L", "*", "2", "*", "1", "*", "2", "0">>

\* NM1*IL*1*DOE*JO
L_NM1 ==
    <<"N", "M", "1", "*", "I", "L", "*", "1", "*", "D", "O", "E", "*", "J",
    "O">>

\* TRN*2*T1
L_TRN ==
    <<"T", "R", "N", "*", "2", "*", "T", "1">>

\* STC*F2:5*20251031**9.5
L_STC ==
    <<"S", "T", "C", "*", "F", "2", ":", "5", "*", "2", "0", "2", "5", "1",
    "0", "3", "1", "*", "*", "9", ".", "5">>

\* REF*1K*R1
L_REF ==
    <<"R", "E", "F", "*", "1", "K", "*", "R", "1">>

\* DTP*472*D8*20250725
L_DTP ==
    <<"D", "T", "P", "*", "4", "7", "2", "*", "D", "8", "*", "2", "0", "2",
    "5", "0", "7", "2", "5">>

\* SVC*HC:A1*5*0
L_SVC ==
    <<"S", "V", "C", "*", "H", "C", ":", "A", "1", "*", "5", "*", "0">>

\* ZZ*1
L_ZZ ==
    <<"Z", "Z", "*", "1">>

\* SVC
L_SVC_short ==
    <<"S", "V", "C">>

\* an empty segment
L_empty ==
    <<>>

\* STC*A1: a status without a reason
L_STC_A1 ==
    <<"S", "T", "C", "*", "A", "1">>

\* STC*A1*********F2:5: a status without a reason at position 1, a status with a reason at position 10
L_STC_two ==
    <<"S", "T", "C", "*", "A", "1", "*", "*", "*", "*", "*", "*", "*", "*",
      "*", "F", "2", ":", "5">>

\* STC: the tag alone
L_STC_bare ==
    <<"S", "T", "C">>

\* DTP*472*RD8*20250801-20250802: a range of service dates
L_DTP_range ==
    <<"D", "T", "P", "*", "4", "7", "2", "*", "R", "D", "8", "*", "2", "0",
      "2", "5", "0", "8", "0", "1", "-", "2", "0", "2", "5", "0", "8", "0",
      "2">>

\* NM1*PR*2*ACME*X: a payer, not the insured
L_NM1_PR ==
    <<"N", "M", "1", "*", "P", "R", "*", "2", "*", "A", "C", "M", "E", "*",
      "X">>

\* NM1*IL*1*DOE*****MI*M1: a last name and an identifier, no first name
L_NM1_id ==
    <<"N", "M", "1", "*", "I", "L", "*", "1", "*", "D", "O", "E", "*", "*",
      "*", "*", "*", "M", "I", "*", "M", "1">>

\* NM1*IL*1* DOE*JO: a last name that begins with a space
L_NM1_pad ==
    <<"N", "M", "1", "*", "I", "L", "*", "1", "*", " ", "D", "O", "E", "*",
      "J", "O">>

\* the segments enumerated transaction texts are made of
SegmentPool ==
    { L_HL22, L_HL20, L_NM1, L_STC, L_DTP, L_SVC, L_ZZ, L_SVC_short, L_empty }

\* HL*4*3*22*0
E_HL ==
    <<"H", "L", "*", "4", "*", "3", "*", "2", "2", "*", "0">>

\* NM1*IL*1*HECTOR*HECTOR****MI*U5105280302
E_NM1 ==
    <<"N", "M", "1", "*", "I", "L", "*", "1", "*", "H", "E", "C", "T", "O",
    "R", "*", "H", "E", "C", "T", "O", "R", "*", "*", "*", "*", "M", "I",
    "*", "U", "5", "1", "0", "5", "2", "8", "0", "3", "0", "2">>

\* TRN*2*ABC123
E_TRN ==
    <<"T", "R", "N", "*", "2", "*", "A", "B", "C", "1", "2", "3">>

\* STC*F2:542*20251031**1293.81*0*20250924
E_STC ==
    <<"S", "T", "C", "*", "F", "2", ":", "5", "4", "2", "*", "2", "0", "2",
    "5", "1", "0", "3", "1", "*", "*", "1", "2", "9", "3", ".", "8", "1",
    "*", "0", "*", "2", "0", "2", "5", "0", "9", "2", "4">>

\* DTP*472*D8*20250725
E_DTP ==
    <<"D", "T", "P", "*", "4", "7", "2", "*", "D", "8", "*", "2", "0", "2",
    "5", "0", "7", "2", "5">>

\* SVC*HC:A4604*181.38*0****1
E_SVC ==
    <<"S", "V", "C", "*", "H", "C", ":", "A", "4", "6", "0", "4", "*", "1",
    "8", "1", ".", "3", "8", "*", "0", "*", "*", "*", "*", "1">>

\* the transaction of the decoding example
ExampleSegments == <<E_HL, E_NM1, E_TRN, E_STC, E_DTP, E_SVC>>

\* a claim with one service line whose status is reported twice
RepeatedStatusSegments == <<L_HL22, L_SVC, L_STC, L_STC>>

\* two claims with a service line each, an HL of another level between them
TwoClaimsSegments == <<L_HL22, L_SVC, L_HL20, L_HL22, L_SVC_short>>

\* a claim with a segment of every kind, before and after its service line
FullClaimSegments ==
    <<L_HL22, L_NM1, L_TRN, L_REF, L_STC, L_DTP, L_SVC, L_STC, L_DTP, L_TRN, L_REF>>

\* a service line whose status comes without a reason, then with one
SplitStatusSegments == <<L_HL22, L_SVC, L_STC_A1, L_STC>>

\* the same within one STC segment
LaterCandidateSegments == <<L_HL22, L_SVC, L_STC_two>>

\* claim-level statuses, the shortest ones included, then service-level ones
ClaimStatusSegments == <<L_HL22, L_STC_bare, L_STC_A1, L_STC, L_SVC, L_STC_bare, L_STC>>

\* two service dates before the first service line, one during the second
\* service line, and a second claim
StashSegments ==
    <<L_HL22, L_DTP, L_DTP_range, L_SVC, L_SVC_short, L_DTP_range, L_HL22, L_SVC>>

\* a claim that ends with a date stashed, and a second claim
CarrySegments == <<L_HL22, L_DTP, L_HL22, L_SVC>>

\* a date read right after a second claim was opened
SecondClaimSegments == <<L_HL22, L_DTP, L_SVC, L_HL22, L_DTP_range>>

\* the names of a payer and of the insured, in several forms
NameSegments == <<L_HL22, L_NM1_PR, L_NM1_id, L_NM1_pad, L_NM1, L_NM1_PR>>

\* every kind of segment of a claim, read before the first level-22 HL
OrphanSegments == <<L_NM1, L_TRN, L_STC, L_REF, L_DTP, L_SVC, L_HL22>>

\* the text of a list of segments, each ended by "~"
RECURSIVE Transaction(_)
Transaction(segs) ==
    IF segs = <<>> THEN <<>>
    ELSE Head(segs) \o <<"~">> \o Transaction(Tail(segs))

Transactions ==
    { Transaction(segs) : segs \in UNION { [1..n -> SegmentPool] : n \in 0..MaxSegs } }
        \cup { Transaction(ExampleSegments), Transaction(RepeatedStatusSegments),
               Transaction(TwoClaimsSegments), Transaction(OrphanSegments),
               Transaction(FullClaimSegments), Transaction(SplitStatusSegments),
               Transaction(LaterCandidateSegments), Transaction(ClaimStatusSegments),
               Transaction(StashSegments), Transaction(CarrySegments),
               Transaction(NameSegments), Transaction(SecondClaimSegments) }

\* X12ClaimParser(x12_content): self.claims = []
DecodeInit ==
    /\ SubmitIdle /\ ResIdle /\ PipeIdle
    /\ x12_content \in Transactions
    /\ claims = <<>>
    /\ dpc = "new"
    /\ lines = <<>> /\ pos = 1
    /\ current_claim = <<>> /\ current_service = 0
    /\ hierarchical_levels = <<>>
    /\ returned = <<>>

\* a parse() that starts with a claim open
InitialClaim_Open == <<NewClaim>>

\* current_claim = None
InitialClaim == <<>>

\* parse() is called, on a new parser or on one that has parsed before: the
\* lines are split and the locals are set; self.claims is left as it is
CallParse ==
    /\ dpc \in {"new", "returned"}
    /\ Len(returned) < MaxParses
    /\ lines' = Lines(x12_content)
    /\ pos' = 1
    /\ current_claim' = InitialClaim
    /\ current_service' = 0
    /\ hierarchical_levels' = <<>>
    /\ dpc' = "parse"
    /\ UNCHANGED <<x12_content, claims, returned>>
    /\ UNCHANGED <<submitvars, resvars, pipevars, apivars>>

\* a handler that drops the open service line
HandleOther_DropsService(st, segments) == [st EXCEPT !.current_service = 0]

\* a segment no branch of the if/elif chain takes
HandleOther(st, segments) == st

\* the if/elif chain on segment_id
Dispatch(st, segments) ==
    LET segment_id == segments[1]
        open == st.current_claim # <<>>
    IN  IF segment_id = T_HL THEN HandleHL(st, segments)
        ELSE IF segment_id = T_NM1 /\ open THEN HandleNM1(st, segments)
        ELSE IF segment_id = T_TRN /\ open THEN HandleTRN(st, segments)
        ELSE IF segment_id = T_STC /\ st.current_service # 0
             THEN HandleServiceSTC(st, segments)
        ELSE IF segment_id = T_STC /\ open THEN HandleClaimSTC(st, segments)
        ELSE IF segment_id = T_REF /\ open THEN HandleREF(st, segments)
        ELSE IF segment_id = T_DTP /\ open THEN HandleDTP(st, segments)
        ELSE IF segment_id = T_SVC /\ open THEN HandleSVC(st, segments)
        ELSE HandleOther(st, segments)

\* parse()'s locals and self.claims
ParserState ==
    [claims |-> claims, current_claim |-> current_claim,
     current_service |-> current_service,
     hierarchical_levels |-> hierarchical_levels]

\* one turn of "for line in lines"
ParseLine ==
    /\ dpc = "parse"
    /\ pos <= Len(lines)
    /\ LET line == Strip(lines[pos])
           st == IF line = <<>> \/ line = <<"~">> THEN ParserState
                 ELSE Dispatch(ParserState, Segments(line))
       IN  /\ claims' = st.claims
           /\ current_claim' = st.current_claim
           /\ current_service' = st.current_service
           /\ hierarchical_levels' = st.hierarchical_levels
    /\ pos' = pos + 1
    /\ UNCHANGED <<x12_content, dpc, lines, returned>>
    /\ UNCHANGED <<submitvars, resvars, pipevars, apivars>>

\* the end of parse(): the open claim is committed, self.claims is returned
ParseReturns ==
    /\ dpc = "parse"
    /\ pos > Len(lines)
    /\ claims' = IF current_claim # <<>> THEN Append(claims, current_claim[1])
                 ELSE claims
    /\ returned' = Append(returned, claims')
    /\ dpc' = "returned"
    /\ UNCHANGED <<x12_content, lines, pos, current_claim, current_service,
                   hierarchical_levels>>
    /\ UNCHANGED <<submitvars, resvars, pipevars, apivars>>

DecodeNext ==
    \/ CallParse
    \/ ParseLine
    \/ ParseReturns

DecodeSpec == DecodeInit /\ [][DecodeNext]_vars

----------------------------------------------------------------------------
(* Claims about the decoder *)

\* the segments of the transaction text, in document order, empty ones left out
SegmentsOf(content) ==
    LET Kept(line) == Strip(line) # <<>> /\ Strip(line) # <<"~">>
        kept == SelectSeq(Lines(content), Kept)
    IN  [i \in DOMAIN kept |-> Segments(Strip(kept[i]))]

IsLevel22(seg) == seg[1] = T_HL /\ Len(seg) > 3 /\ seg[4] = <<"2", "2">>

IsSVC(seg) == seg[1] = T_SVC

\* the positions, in increasing order, of the level-22 HL segments
Level22Positions(segs) ==
    LET Sel(i) == IsLevel22(segs[i])
    IN  SelectSeq([i \in DOMAIN segs |-> i], Sel)

\* the segments read while the j-th claim was the open claim
SegmentsOfClaim(segs, j) ==
    LET opened == Level22Positions(segs)
        last == IF j < Len(opened) THEN opened[j + 1] - 1 ELSE Len(segs)
    IN  SubSeq(segs, opened[j] + 1, last)

\* the charges of the SVC segments read while the j-th claim was open
ChargesRead(segs, j) ==
    LET svc == SelectSeq(SegmentsOfClaim(segs, j), IsSVC)
    IN  [i \in DOMAIN svc |-> IF Len(svc[i]) > 2 THEN svc[i][3] ELSE ZeroAmount]

\* C14: decode returns as many claims as the text has HL segments of level 22,
\* in document order, the j-th claim holding exactly the service lines of the
\* SVC segments read while it was open; an HL segment of another level neither
\* opens nor closes a claim.
C14_OneClaimPerLevel22 ==
    returned # <<>> =>
        LET segs == SegmentsOf(x12_content)
            out == returned[1]
        IN  /\ Len(out) = Len(Level22Positions(segs))
            /\ \A j \in DOMAIN out :
                  [i \in DOMAIN out[j].services |-> out[j].services[i].charge]
                      = ChargesRead(segs, j)

\* two claims were decoded, each with its own service line, from a text with an
\* HL segment of another level between them
C14_Witness ==
    /\ returned # <<>>
    /\ x12_content = Transaction(TwoClaimsSegments)
    /\ Len(returned[1]) = 2
    /\ Len(returned[1][1].services) = 1
    /\ Len(returned[1][2].services) = 1
    /\ returned[1][1].services[1].charge = <<"5">>
    /\ returned[1][2].services[1].charge = ZeroAmount

\* C15: decoding the same text twice yields identical claim lists: a second
\* parse() on the same parser returns the claims the first returned, nothing
\* accumulated from the earlier call.
C15_SecondParseReturnsTheSame ==
    Len(returned) >= 2 => returned[2] = returned[1]

\* the claim and the service line of the decoding example
ExampleClaim ==
    [NewClaim EXCEPT
        !.claim_number = <<"A", "B", "C", "1", "2", "3">>,
        !.status_code = <<"F", "2">>,
        !.status_code2 = <<"5", "4", "2">>,
        !.total_charge = <<"1", "2", "9", "3", ".", "8", "1">>,
        !.adjudication_date =
            <<"1", "0", "/", "3", "1", "/", "2", "0", "2", "5">>,
        !.patient_name =
            <<"H", "E", "C", "T", "O", "R", " ", "H", "E", "C", "T", "O", "R">>,
        !.patient_id =
            <<"U", "5", "1", "0", "5", "2", "8", "0", "3", "0", "2">>]

ExampleService ==
    [cpt_code |-> <<"A", "4", "6", "0", "4">>,
     date_of_service |->
         <<"0", "7", "/", "2", "5", "/", "2", "0", "2", "5">>,
     charge |-> <<"1", "8", "1", ".", "3", "8">>]

\* the fields of a claim that the example names
NamedFields ==
    {"claim_number", "status_code", "status_code2", "total_charge",
     "adjudication_date", "patient_name", "patient_id"}

\* C16: the example transaction decodes to exactly one claim with claim_number
\* ABC123, status_code F2, status_reason_code 542, total_charge 1293.81,
\* adjudication_date 10/31/2025, patient_name HECTOR HECTOR, patient_id
\* U5105280302, and exactly one service line with cpt_code A4604,
\* date_of_service 07/25/2025 and charge 181.38.
C16_ExampleDecodes ==
    (x12_content = Transaction(ExampleSegments) /\ returned # <<>>) =>
        /\ Len(returned[1]) = 1
        /\ \A f \in NamedFields : returned[1][1][f] = ExampleClaim[f]
        /\ Len(returned[1][1].services) = 1
        /\ returned[1][1].services[1].cpt_code = ExampleService.cpt_code
        /\ returned[1][1].services[1].dos = ExampleService.date_of_service
        /\ returned[1][1].services[1].charge = ExampleService.charge

\* the example transaction was decoded
C16_Witness ==
    /\ x12_content = Transaction(ExampleSegments)
    /\ Len(returned) = 1
    /\ Len(returned[1]) = 1
    /\ returned[1][1].claim_number = ExampleClaim.claim_number

\* the (status_code, reason_code, entity_code) triple of an adjustment
Triple(adj) == <<adj.status_code, adj.reason_code, adj.entity_code>>

\* C17: no service line of a decoded claim holds two adjustments with the same
\* (status_code, reason_code, entity_code) triple.
C17_NoRepeatedTriple ==
    returned # <<>> =>
        \A j \in DOMAIN returned[1] :
            \A n \in DOMAIN returned[1][j].services :
                LET adjustments == returned[1][j].services[n].adjustments
                IN  \A a, b \in DOMAIN adjustments :
                        Triple(adjustments[a]) = Triple(adjustments[b]) => a = b

\* line is a segment that the loop reads (not an empty line)
IsRead(line) == Strip(line) # <<>> /\ Strip(line) # <<"~">>

\* none of the first n lines is a level-22 HL segment
NoLevel22In(n) ==
    \A p \in 1..n :
        IsRead(lines[p]) => ~IsLevel22(Segments(Strip(lines[p])))

\* self.claims when the running parse() was called
ClaimsAtCall == IF returned = <<>> THEN <<>> ELSE returned[Len(returned)]

\* C18: no claim exists that a level-22 HL segment did not open and no service
\* line exists outside a claim: as long as parse() has read no level-22 HL
\* segment, whatever NM1, TRN, STC, REF, DTP and SVC segments it has read, no
\* claim is open, no service line is open and self.claims is as it was; a text
\* without a level-22 HL segment decodes to no claim.
C18_NothingBeforeLevel22 ==
    /\ (dpc = "parse" /\ NoLevel22In(pos - 1)) =>
          /\ current_claim = <<>>
          /\ current_service = 0
          /\ claims = ClaimsAtCall
    /\ current_service # 0 =>
          /\ current_claim # <<>>
          /\ current_service \in DOMAIN current_claim[1].services
    /\ (returned # <<>> /\ Level22Positions(SegmentsOf(x12_content)) = <<>>) =>
          returned[1] = <<>>

\* a segment of every kind was read before the only level-22 HL segment, and
\* the claim decoded is the empty claim that segment opened
C18_Witness ==
    /\ x12_content = Transaction(OrphanSegments)
    /\ returned = << <<NewClaim>> >>

\* the open claim is as it was, but for the fields named
ClaimKeptExcept(fields) ==
    \/ current_claim = <<>> /\ current_claim' = <<>>
    \/ /\ current_claim # <<>> /\ current_claim' # <<>>
       /\ \A f \in DOMAIN current_claim[1] \ fields :
             current_claim'[1][f] = current_claim[1][f]

\* the service lines of the open claim are as they were, but for the fields
\* named of the open service line
ServicesKeptExcept(fields) ==
    \/ current_claim = <<>>
    \/ /\ Len(current_claim'[1].services) = Len(current_claim[1].services)
       /\ \A n \in DOMAIN current_claim[1].services :
             \A f \in DOMAIN current_claim[1].services[n] :
                 (n # current_service \/ f \notin fields) =>
                     current_claim'[1].services[n][f] = current_claim[1].services[n][f]

\* the step changes nothing of what parse() has decoded
NothingChanged ==
    UNCHANGED <<claims, current_claim, current_service, hierarchical_levels>>

\* what a step on a segment with this tag may change, at most
ChangesAtMostItsFields(tag) ==
    IF tag = T_HL THEN TRUE
    ELSE /\ UNCHANGED <<claims, hierarchical_levels>>
         /\ IF tag = T_NM1
            THEN /\ ClaimKeptExcept({"patient_name", "patient_id"})
                 /\ UNCHANGED current_service
            ELSE IF tag \in {T_TRN, T_REF}
            THEN /\ ClaimKeptExcept({"claim_number"})
                 /\ UNCHANGED current_service
            ELSE IF tag = T_STC /\ current_service # 0
            THEN /\ ClaimKeptExcept({"services"})
                 /\ ServicesKeptExcept({"status_code", "status_code2", "adjustments"})
                 /\ UNCHANGED current_service
            ELSE IF tag = T_STC
            THEN /\ ClaimKeptExcept({"status_code", "status_code2", "total_charge",
                                     "adjudication_date", "claim_adjustments"})
                 /\ UNCHANGED current_service
            ELSE IF tag = T_DTP
            THEN /\ ClaimKeptExcept({"services", "pending_dos"})
                 /\ ServicesKeptExcept({"dos"})
                 /\ UNCHANGED current_service
            ELSE IF tag = T_SVC
            THEN /\ ClaimKeptExcept({"services", "pending_dos"})
                 /\ current_claim # <<>> =>
                       SubSeq(current_claim'[1].services, 1,
                              Len(current_claim[1].services)) = current_claim[1].services
            ELSE NothingChanged

\* a turn of the loop keeps to the segment it reads: an empty line and a segment
\* with an unrecognized tag change nothing, any other segment changes at most
\* the fields its tag sets
TurnKeepsToItsSegment ==
    (dpc = "parse" /\ dpc' = "parse" /\ pos' = pos + 1) =>
        IF IsRead(lines[pos])
        THEN ChangesAtMostItsFields(Segments(Strip(lines[pos]))[1])
        ELSE NothingChanged

\* a step inside parse() is a turn of the loop on the next line, or, when no
\* line is left, the return of self.claims
TurnOrReturn ==
    dpc = "parse" =>
        \/ /\ pos <= Len(lines) /\ pos' = pos + 1 /\ dpc' = "parse"
           /\ UNCHANGED <<lines, returned>>
        \/ /\ pos > Len(lines) /\ dpc' = "returned"
           /\ returned' = Append(returned, claims')

\* C19: for any sequence of segments, short, empty and unrecognized ones
\* included, every step of parse() is a turn on the next line or the return of
\* the claim list, never an exit of another kind; a segment changes at most the
\* fields its tag sets, and an empty segment or a segment with an unrecognized
\* tag changes nothing.
C19_DecodeCompletes ==
    [][TurnOrReturn /\ TurnKeepsToItsSegment]_vars

\* a text with a short segment and a segment with an unrecognized tag after the
\* claim's HL was decoded: the short SVC gave a service line of defaults
C19_Witness ==
    /\ dpc = "returned"
    /\ x12_content = Transaction(<<L_HL22, L_SVC_short, L_ZZ>>)
    /\ Len(returned[1]) = 1
    /\ Len(returned[1][1].services) = 1
    /\ returned[1][1].services[1].charge = ZeroAmount

\* parse() is about to read a segment: the segment
ReadsSegment == dpc = "parse" /\ pos <= Len(lines) /\ IsRead(lines[pos])

Segment == Segments(Strip(lines[pos]))

\* the status candidates of an STC segment: the fields at positions 1, 10 and
\* 11 that are not empty and hold a status or a reason, in that order
StatusCandidates(segments) ==
    LET At(p) == IF Len(segments) > p THEN segments[p + 1] ELSE <<>>
        Holds(p) == At(p) # <<>> /\ At(p) # <<":">>
                       /\ (SplitOn(At(p), ":")[1] # <<>>
                            \/ Field(SplitOn(At(p), ":"), 1, <<>>) # <<>>)
        kept == SelectSeq(<<1, 10, 11>>, Holds)
    IN  [n \in DOMAIN kept |-> At(kept[n])]

StatusOf(candidate) == SplitOn(candidate, ":")[1]

ReasonOf(candidate) == Field(SplitOn(candidate, ":"), 1, <<>>)

\* C28: an STC segment read while a service line is open leaves the line's
\* status_code and status_code2 as they are when the line has a status, and
\* otherwise sets both from the first status candidate of the segment.
C28_ServiceStatusFromOneCandidate ==
    [][(ReadsSegment /\ Segment[1] = T_STC /\ current_service # 0) =>
          LET before == current_claim[1].services[current_service]
              after == current_claim'[1].services[current_service]
              candidates == StatusCandidates(Segment)
          IN  IF before.status_code # <<>> \/ before.status_code2 # <<>>
                  \/ candidates = <<>>
              THEN /\ after.status_code = before.status_code
                   /\ after.status_code2 = before.status_code2
              ELSE /\ after.status_code = StatusOf(candidates[1])
                   /\ after.status_code2 = ReasonOf(candidates[1])]_vars

\* the claim-level fields an STC segment can set
ClaimStatusFields ==
    {"status_code", "status_code2", "total_charge", "adjudication_date",
     "claim_adjustments"}

\* C29: an STC segment read while a claim is open is applied at one level.  With
\* a service line open it changes nothing but that service line: the claim's
\* status fields, total_charge, adjudication_date and claim_adjustments and the
\* other service lines stay.  With no service line open it leaves the service
\* lines alone, sets the claim's status fields from the segment and appends one
\* claim-level adjustment that holds the claim's status_code, status_code2 and
\* total_charge as they are after the segment.
C29_StatusAppliedAtOneLevel ==
    [][(ReadsSegment /\ Segment[1] = T_STC /\ current_claim # <<>>) =>
          LET before == current_claim[1]
              after == current_claim'[1]
          IN  IF current_service # 0
              THEN /\ \A f \in DOMAIN before \ {"services"} : after[f] = before[f]
                   /\ Len(after.services) = Len(before.services)
                   /\ \A n \in DOMAIN before.services :
                         n # current_service => after.services[n] = before.services[n]
              ELSE /\ \A f \in DOMAIN before \ ClaimStatusFields : after[f] = before[f]
                   /\ Len(Segment) > 1 =>
                         /\ after.status_code = StatusOf(Segment[2])
                         /\ after.status_code2 = ReasonOf(Segment[2])
                   /\ Len(after.claim_adjustments) = Len(before.claim_adjustments) + 1
                   /\ SubSeq(after.claim_adjustments, 1, Len(before.claim_adjustments))
                         = before.claim_adjustments
                   /\ LET adjustment == after.claim_adjustments[Len(after.claim_adjustments)]
                      IN  /\ adjustment.status_code = after.status_code
                          /\ adjustment.reason_code = after.status_code2
                          /\ adjustment.amount = after.total_charge]_vars

\* three claim-level STC segments gave three claim-level adjustments and the
\* status of the last one; the two read during the service line gave the line
\* its status and one adjustment, and the claim none
C29_Witness ==
    /\ dpc = "returned"
    /\ x12_content = Transaction(ClaimStatusSegments)
    /\ Len(returned[1]) = 1
    /\ Len(returned[1][1].claim_adjustments) = 3
    /\ returned[1][1].status_code = <<"F", "2">>
    /\ returned[1][1].claim_adjustments[3].amount = returned[1][1].total_charge
    /\ returned[1][1].services[1].status_code = <<"F", "2">>
    /\ Len(returned[1][1].services[1].adjustments) = 1

\* the formatted service date of the DTP segment that is about to be read,
\* <<>> when it holds none
DateRead ==
    IF Field(Segment, 1, <<>>) = <<"4", "7", "2">>
    THEN ServiceDate(Field(Segment, 2, <<>>), Field(Segment, 3, <<>>))
    ELSE <<>>

\* a DTP segment with a service date is read while a claim is open
ReadsServiceDate ==
    /\ ReadsSegment /\ Segment[1] = T_DTP /\ current_claim # <<>>
    /\ DateRead # <<>>

\* a service date read while a service line is open becomes that line's dos
DateSetsOpenLine ==
    (ReadsServiceDate /\ current_service # 0) =>
        /\ current_claim'[1].services[current_service].dos = DateRead
        /\ current_claim'[1].pending_dos = current_claim[1].pending_dos

\* a service line that is opened takes the stashed date, if there is one, and
\* the stash is empty afterwards
LineTakesStash ==
    (ReadsSegment /\ Segment[1] = T_SVC /\ current_claim # <<>>) =>
        LET stash == current_claim[1].pending_dos
            line == current_claim'[1].services[Len(current_claim'[1].services)]
        IN  /\ Len(current_claim'[1].services) = Len(current_claim[1].services) + 1
            /\ line.dos = (IF stash # <<>> THEN stash[1] ELSE <<>>)
            /\ current_claim'[1].pending_dos = <<>>

\* a claim that is opened has no date stashed
NewClaimHasNoStash ==
    (ReadsSegment /\ IsLevel22(Segment)) => current_claim'[1].pending_dos = <<>>

\* C30 as stated: a service date read while no service line is open is
\* stashed; the next service line opened in the claim takes the stash, which is
\* cleared then and is empty in a claim that is opened; a service date read
\* while a service line is open becomes that line's date.
C30_StashGoesToNextLine ==
    [][/\ (ReadsServiceDate /\ current_service = 0) =>
             current_claim'[1].pending_dos = <<DateRead>>
       /\ DateSetsOpenLine /\ LineTakesStash /\ NewClaimHasNoStash]_vars

\* C30 as amended: a service date read while no service line is open is
\* stashed when no date is stashed, and dropped when one is; the rest as stated.
C30_FirstStashGoesToNextLine ==
    [][/\ (ReadsServiceDate /\ current_service = 0) =>
             current_claim'[1].pending_dos =
                 (IF current_claim[1].pending_dos = <<>> THEN <<DateRead>>
                  ELSE current_claim[1].pending_dos)
       /\ DateSetsOpenLine /\ LineTakesStash /\ NewClaimHasNoStash]_vars

\* two dates before the first service line: the line got the first one; the
\* second line got the date read while it was open; the second claim's line
\* got none
C30_Witness ==
    /\ dpc = "returned"
    /\ x12_content = Transaction(StashSegments)
    /\ Len(returned[1]) = 2
    /\ returned[1][1].services[1].dos = FormatDate(<<"2", "0", "2", "5", "0", "7", "2", "5">>)
    /\ returned[1][1].services[2].dos = FormatDate(<<"2", "0", "2", "5", "0", "8", "0", "1">>)
    /\ returned[1][1].pending_dos = <<>>
    /\ returned[1][2].services[1].dos = <<>>

\* an NM1 segment is about to be read while a claim is open
ReadsName == ReadsSegment /\ Segment[1] = T_NM1 /\ current_claim # <<>>

\* the step sets patient_name to the two fields at positions a and b, in that
\* order, joined by a space and trimmed, sets patient_id to the field at
\* position 9 and nothing else when the role is IL; it changes nothing otherwise
NameComposed(a, b) ==
    IF Field(Segment, 1, <<>>) = <<"I", "L">>
    THEN /\ current_claim'[1].patient_name =
               Strip(Field(Segment, a, <<>>) \o <<" ">> \o Field(Segment, b, <<>>))
         /\ current_claim'[1].patient_id = Field(Segment, 9, <<>>)
         /\ \A f \in DOMAIN current_claim[1] \ {"patient_name", "patient_id"} :
               current_claim'[1][f] = current_claim[1][f]
    ELSE current_claim' = current_claim

\* C31 as stated: an NM1 segment with role IL read while a claim is open sets
\* patient_name to the last name (position 3) and the first name (position 4),
\* in that order, joined by a space and trimmed, and patient_id to the field at
\* position 9; an NM1 segment with another role leaves the claim unchanged.
C31_NameLastThenFirst ==
    [][ReadsName => NameComposed(3, 4)]_vars

\* C31 as amended: the first name (position 4) comes before the last name
\* (position 3); the rest as stated.
C31_NameFirstThenLast ==
    [][ReadsName => NameComposed(4, 3)]_vars

\* the insured DOE, JO was decoded as "JO DOE"; the payer's NM1 segments before
\* and after it changed nothing
C31_Witness ==
    /\ dpc = "returned"
    /\ x12_content = Transaction(NameSegments)
    /\ Len(returned[1]) = 1
    /\ returned[1][1].patient_name = <<"J", "O", " ", "D", "O", "E">>
    /\ returned[1][1].patient_id = <<>>

\* the claims decoded so far: the committed ones and the open one
DecodedClaims == claims \o current_claim

\* the adjustments of a claim: its own and those of its service lines
AdjustmentsOf(claim) ==
    { claim.claim_adjustments[n] : n \in DOMAIN claim.claim_adjustments }
        \cup UNION { { claim.services[m].adjustments[n] :
                          n \in DOMAIN claim.services[m].adjustments } :
                      m \in DOMAIN claim.services }

\* C32: every adjustment decoded, of a claim or of a service line, has an
\* entity_code that is not empty.
C32_AdjustmentsNameAnEntity ==
    \A c \in DOMAIN DecodedClaims :
        \A adjustment \in AdjustmentsOf(DecodedClaims[c]) :
            adjustment.entity_code # <<>>

\* at most one claim is open, and the open service line is the last service
\* line of the open claim
OpenLineIsLastOfOpenClaim ==
    /\ Len(current_claim) <= 1
    /\ current_service # 0 =>
          /\ current_claim # <<>>
          /\ current_service = Len(current_claim[1].services)

\* a level-22 HL leaves no service line open and commits the open claim as it
\* is; an STC or DTP segment changes no committed claim
CommittedClaimsKept ==
    /\ (ReadsSegment /\ IsLevel22(Segment)) =>
          /\ current_service' = 0
          /\ current_claim'[1].services = <<>>
          /\ claims' = claims \o current_claim
    /\ (ReadsSegment /\ Segment[1] \in {T_STC, T_DTP}) => claims' = claims

\* C36: at every point of decoding at most one claim and one service line are
\* open and the open service line is the last one of the open claim; a level-22
\* HL leaves no service line open, so that an STC or DTP segment never changes
\* a service line of a committed claim.
C36_OneOpenClaimAndLine ==
    []OpenLineIsLastOfOpenClaim /\ [][CommittedClaimsKept]_vars

\* the second claim was opened while the first one's service line was open; the
\* date read next was stashed on the second claim and the first claim's line
\* kept its own
C36_Witness ==
    /\ dpc = "parse"
    /\ lines # <<>> /\ pos = 6
    /\ x12_content = Transaction(SecondClaimSegments)
    /\ Len(claims) = 1 /\ claims[1].services[1].dos = FormatDate(<<"2", "0", "2", "5", "0", "7", "2", "5">>)
    /\ current_service = 0
    /\ current_claim[1].pending_dos # <<>>
====
